---- MODULE Spec2Model ----
(***************************************************************************)
(* A model of the generation engine of ai-testmanager-ui (backend/app):    *)
(* the step / fixture / test-case data mutations, the validation of the    *)
(* fixture-binding rules, and the generators that write the Playwright     *)
(* files and copy their content back into the database.                    *)
(*                                                                         *)
(* Strings that the code computes on (names, export names, file names) are *)
(* sequences of one-character strings over a small alphabet, so that the   *)
(* normalisers are computed as the code computes them.  Identifiers that   *)
(* the code only compares (row ids) are plain strings.                     *)
(***************************************************************************)
EXTENDS Integers, Sequences, FiniteSets, TLC

\* ------------------------------------------------------------------ bounds
\* Largest order value a client submits for a step.
MaxOrder == 2

\* Largest order value a client submits for a fixture association.
MaxFixtureOrder == 3

\* Longest name a client submits where names are enumerated.
MaxNameLen == 3

\* ------------------------------------------------------------- characters
Lowers == {"a", "b", "c", "d", "e", "f", "g", "h", "i", "j", "k", "l", "m",
           "n", "o", "p", "q", "r", "s", "t", "u", "v", "w", "x", "y", "z"}
Uppers == {"A", "B", "F", "U"}
Digits == {"1"}
Spaces == {" "}

LowerOf(c) ==
    CASE c = "A" -> "a" [] c = "B" -> "b" [] c = "F" -> "f" [] c = "U" -> "u"
      [] OTHER -> c

UpperOf(c) ==
    CASE c = "a" -> "A" [] c = "b" -> "B" [] c = "f" -> "F" [] c = "u" -> "U"
      [] OTHER -> c

IsAlpha(c) == c \in Lowers \cup Uppers
IsAlnum(c) == IsAlpha(c) \/ c \in Digits
\* \w of Python's re: letters, digits and the underscore.
IsWord(c) == IsAlnum(c) \/ c = "_"
IsSpace(c) == c \in Spaces

\* str.lower()
Lower(s) == [i \in 1..Len(s) |-> LowerOf(s[i])]

\* str.capitalize(): first character upper-cased, the rest lower-cased.
Capitalize(s) ==
    IF s = <<>> THEN <<>> ELSE <<UpperOf(Head(s))>> \o Lower(Tail(s))

\* str.strip(): leading and trailing whitespace removed.
RECURSIVE LStrip(_)
LStrip(s) == IF s # <<>> /\ IsSpace(Head(s)) THEN LStrip(Tail(s)) ELSE s

RECURSIVE RStrip(_)
RStrip(s) ==
    IF s # <<>> /\ IsSpace(s[Len(s)]) THEN RStrip(SubSeq(s, 1, Len(s) - 1)) ELSE s

Strip(s) == LStrip(RStrip(s))

\* str.split() and re.split over runs of separators with the empty words
\* dropped: the maximal runs of non-separator characters, in order.
RECURSIVE SplitFrom(_, _, _)
SplitFrom(s, cur, seps) ==
    IF s = <<>> THEN (IF cur = <<>> THEN <<>> ELSE <<cur>>)
    ELSE IF Head(s) \in seps
         THEN (IF cur = <<>> THEN <<>> ELSE <<cur>>) \o SplitFrom(Tail(s), <<>>, seps)
         ELSE SplitFrom(Tail(s), Append(cur, Head(s)), seps)

Split(s) == SplitFrom(s, <<>>, Spaces)

RECURSIVE Concat(_)
Concat(ss) == IF ss = <<>> THEN <<>> ELSE Head(ss) \o Concat(Tail(ss))

Str_fixture == <<"f", "i", "x", "t", "u", "r", "e">>
Str_page == <<"p", "a", "g", "e">>

Str_UnknownFixture ==
    <<"U", "n", "k", "n", "o", "w", "n", " ", "F", "i", "x", "t", "u", "r", "e">>
Str_project == <<"p", "r", "o", "j", "e", "c", "t">>

\* -------------------------------------------------------------- normalisers
\* playwright_fixture.py _clean_export_name (the test-case generator carries
\* a copy of the same body): drop every character outside [a-zA-Z0-9\s],
\* camel-case the words, prefix "fixture" when the result starts with a digit.
NotSpecial(c) == IsAlnum(c) \/ IsSpace(c)

CamelTail(words) == Concat([i \in 1..Len(words) |-> Capitalize(words[i])])

\* lines 85-87: a name that does not start with a letter gets the prefix.
EnsureLetter(camel_case) ==
    IF ~IsAlpha(camel_case[1]) THEN Str_fixture \o Capitalize(camel_case)
    ELSE camel_case

\* lines 77-83: first word lower-cased, the others capitalised.
CamelCase(words) ==
    IF words = <<>> THEN Str_fixture
    ELSE EnsureLetter(Lower(words[1]) \o CamelTail(Tail(words)))

_clean_export_name(name) == CamelCase(Split(SelectSeq(name, NotSpecial)))

\* playwright_test_case.py _clean_test_name: re.sub(r'[^\w\s-]', '', name).strip()
KeepInTestName(c) == IsWord(c) \/ IsSpace(c) \/ c = "-"

_clean_test_name(name) == Strip(SelectSeq(name, KeepInTestName))

\* generate_test_case, lines 445-446: the file name of a test case.  The
\* suffix ".spec.ts" is one element at the end of the sequence.
SpaceToHyphen(c) == IF c = " " THEN "-" ELSE c

\* str.replace(' ', '-')
ReplaceSpaces(s) == [i \in 1..Len(s) |-> SpaceToHyphen(s[i])]

TestFileName(name) ==
    Append(Lower(ReplaceSpaces(SelectSeq(_clean_test_name(name), KeepInTestName))),
           ".spec.ts")

\* generate_fixture, line 272: the file name of a fixture.
FixtureFileName(export_name) == Append(export_name, ".fixture.ts")

\* playwright_project.py clean_folder_name.
RECURSIVE CollapseRuns(_, _, _)
\* re.sub over maximal runs: every maximal run of characters satisfying
\* InRun is replaced by the single character `by`.
CollapseRuns(s, run, by) ==
    IF s = <<>> THEN <<>>
    ELSE IF Head(s) \in run
         THEN (IF Len(s) > 1 /\ s[2] \in run THEN <<>> ELSE <<by>>)
              \o CollapseRuns(Tail(s), run, by)
         ELSE <<Head(s)>> \o CollapseRuns(Tail(s), run, by)

IsFolderChar(c) == c \in Lowers \/ c \in Digits \/ c = "-"

RECURSIVE StripHyphens(_)
StripHyphens(s) ==
    IF s # <<>> /\ Head(s) = "-" THEN StripHyphens(Tail(s))
    ELSE IF s # <<>> /\ s[Len(s)] = "-" THEN StripHyphens(SubSeq(s, 1, Len(s) - 1))
    ELSE s

\* lines 244-246: an empty result becomes "project".
OrProject(cleaned) == IF cleaned = <<>> THEN Str_project ELSE cleaned

clean_folder_name(name) ==
    OrProject(StripHyphens(CollapseRuns(
        SelectSeq(CollapseRuns(Lower(name), Spaces \cup {"_"}, "-"), IsFolderChar),
        {"-"}, "-")))

\* ------------------------------------------------------------------- state
\* Row ids are opaque strings; None is Python's None in an id column.
None == "none"
ProjectIds == {"p1", "p2"}
FixtureIds == {"f1", "f2", "f3"}
TestCaseIds == {"t1", "t2"}
StepIds == {"s1", "s2"}
Orders == 1..MaxOrder

\* A path is [dir, sub, name]: the project folder under the Playwright
\* projects root, the sub-folder and the file name.  A relative path (one
\* that names no project folder) has dir = Relative; Python resolves it
\* against the working directory of the server process, which lies outside
\* the projects root and holds no generated file.
Relative == <<".">>
NoDir == <<>>
Path(dir, sub, name) == [dir |-> dir, sub |-> sub, name |-> name]
\* A path column holding None.
NoPath == Path(NoDir, "", <<>>)
\* A name column (filename, export_name) holding None.
NoName == <<>>
\* A script column holding None.
NoScript == [kind |-> "none"]
\* A script as a client submits it.
RawScript(id) == [kind |-> "raw", id |-> id]

\* The requests that worker threads serve side by side, and a thread that
\* serves none.
RequestIds == {"r1", "r2"}
Idle == [pc |-> "idle"]
NoRequests == [r \in RequestIds |-> Idle]

VARIABLES
    projects,           \* projects table: id -> [name, playwright_project_path]
    dirs,               \* folders that exist under the Playwright projects root
    fixtures,           \* fixtures table: id -> row
    test_cases,         \* test_cases table: id -> row
    steps,              \* steps table: id -> row
    test_case_fixtures, \* association table: set of [test_case_id, fixture_id, order]
    files,              \* the files under the projects root: path -> content
    pages,              \* pages table: id -> [project_id, name]
    page_locators,      \* page_locators table: id -> [page_id, locator_key, locator_value]
    project_settings,   \* project_settings table: set of [project_id, key, value]
    in_flight,          \* the requests a worker thread is serving: id -> [pc, ...]
    resp                \* the last request and what it answered

vars == <<projects, dirs, fixtures, test_cases, steps, test_case_fixtures, files,
          pages, page_locators, project_settings, in_flight, resp>>

\* ------------------------------------------------------------ crud/step.py
\* get_steps_by_test_case: the ids of the steps of a test case, ORDER BY
\* order (rows of equal order in one fixed order).
RECURSIVE SortByOrder(_, _)
SortByOrder(S, ids) ==
    IF ids = {} THEN <<>>
    ELSE LET first == CHOOSE i \in ids : \A j \in ids : S[i].order <= S[j].order
         IN  <<first>> \o SortByOrder(S, ids \ {first})

get_steps_by_test_case(S, t) ==
    SortByOrder(S, {i \in DOMAIN S : S[i].test_case_id = t})

\* get_steps_by_fixture: the steps that reference a fixture, ORDER BY order.
get_steps_by_fixture(S, f) ==
    SortByOrder(S, {i \in DOMAIN S : S[i].referenced_fixture_id = f})

\* A validation that forgets the rule for inline fixtures; C2 tells it from
\* the validation of the code.
FixtureRuleError_NoInlineRule(F, fixture_id, order) ==
    IF fixture_id \notin DOMAIN F THEN "fixture_not_found"
    ELSE IF F[fixture_id].type = "extend" /\ order # 1 THEN "extend_only_at_step_1"
    ELSE "ok"

\* The validation of the fixture call rules, shared by create_step (lines
\* 84-99) and update_step (lines 152-163): the error raised, or "ok".
FixtureRuleError(F, fixture_id, order) ==
    IF fixture_id \notin DOMAIN F THEN "fixture_not_found"
    ELSE IF F[fixture_id].type = "extend" /\ order # 1 THEN "extend_only_at_step_1"
    ELSE IF F[fixture_id].type = "inline" /\ order = 1 THEN "inline_not_at_step_1"
    ELSE "ok"

\* The first error of two checks made one after the other.
FirstError(first, second) == IF first # "ok" THEN first ELSE second

\* create_step: the ValueError of the validation, else the foreign-key error
\* of the insert (a test case that does not exist), else "ok".
crud_create_step_error(F, TC, s) ==
    FirstError(IF s.referenced_fixture_id # None
               THEN FixtureRuleError(F, s.referenced_fixture_id, s.order) ELSE "ok",
               IF s.test_case_id # None /\ s.test_case_id \notin DOMAIN TC
               THEN "integrity_error" ELSE "ok")

\* create_step, lines 101-132: the row that is inserted.
crud_create_step_row(F, s) ==
    [test_case_id |-> s.test_case_id,
     action |-> IF s.referenced_fixture_id # None /\ s.action = <<>>
                THEN F[s.referenced_fixture_id].name ELSE s.action,
     expected |-> s.expected,
     playwright_script |-> s.playwright_script,
     order |-> s.order,
     disabled |-> s.disabled,
     referenced_fixture_id |-> s.referenced_fixture_id,
     referenced_fixture_type |->
         IF s.referenced_fixture_id # None
         THEN F[s.referenced_fixture_id].type ELSE None]

\* The id the database gives a new step row.
NewStepId(S) == CHOOSE i \in StepIds \ DOMAIN S : TRUE

Insert(S, id, row) == [i \in DOMAIN S \cup {id} |-> IF i = id THEN row ELSE S[i]]
Delete(S, id) == [i \in DOMAIN S \ {id} |-> S[i]]

\* update_step.  A StepUpdate is [set, order, referenced_fixture_id, action]:
\* `set` names the fields the client sent (exclude_unset); a field that was
\* not sent is None.  The rules are validated only when a fixture id is sent.
crud_update_step_error(F, S, id, u) ==
    IF "referenced_fixture_id" \in u.set /\ u.referenced_fixture_id # None
    THEN FixtureRuleError(F, u.referenced_fixture_id,
                          IF "order" \in u.set THEN u.order ELSE S[id].order)
    ELSE "ok"

crud_update_step_row(F, S, id, u) ==
    [S[id] EXCEPT
       !.order = IF "order" \in u.set THEN u.order ELSE @,
       !.action = IF "action" \in u.set THEN u.action ELSE @,
       !.referenced_fixture_id =
           IF "referenced_fixture_id" \in u.set THEN u.referenced_fixture_id ELSE @,
       !.referenced_fixture_type =
           IF "referenced_fixture_id" \in u.set /\ u.referenced_fixture_id # None
           THEN F[u.referenced_fixture_id].type ELSE @]

\* ------------------------------------------- services/playwright_test_case.py
\* crud/test_case.py get_test_case_fixtures: the association rows of a test
\* case joined with the fixtures table, ORDER BY the association's order.
RECURSIVE AssocSorted(_)
AssocSorted(rows) ==
    IF rows = {} THEN <<>>
    ELSE LET first == CHOOSE r \in rows : \A q \in rows : r.order <= q.order
         IN  <<first>> \o AssocSorted(rows \ {first})

JoinFixtures(F, rows) ==
    [k \in 1..Len(rows) |->
        [fixture_id |-> rows[k].fixture_id,
         name |-> F[rows[k].fixture_id].name,
         type |-> F[rows[k].fixture_id].type]]

get_test_case_fixtures(F, A, t) ==
    JoinFixtures(F, AssocSorted({r \in A : r.test_case_id = t
                                           /\ r.fixture_id \in DOMAIN F}))

\* crud/step.py lines 22-26: the name attached to a step that references a
\* fixture.
referenced_fixture_name(F, f) ==
    IF f \in DOMAIN F THEN F[f].name ELSE Str_UnknownFixture

\* generate_test_case, lines 344-380: the fixtures that steps reference are
\* appended, with the type cached on the step, unless already collected.
AppendReferenced(F, st, data) ==
    IF /\ st.referenced_fixture_id # None
       /\ st.referenced_fixture_type # None
       /\ ~\E k \in 1..Len(data) : data[k].fixture_id = st.referenced_fixture_id
    THEN Append(data, [fixture_id |-> st.referenced_fixture_id,
                       name |-> referenced_fixture_name(F, st.referenced_fixture_id),
                       type |-> st.referenced_fixture_type])
    ELSE data

RECURSIVE AddReferenced(_, _, _, _)
AddReferenced(S, F, ids, data) ==
    IF ids = <<>> THEN data
    ELSE AddReferenced(S, F, Tail(ids), AppendReferenced(F, S[Head(ids)], data))

fixtures_data(S, F, A, t) ==
    AddReferenced(S, F, get_steps_by_test_case(S, t), get_test_case_fixtures(F, A, t))

\* generate_test_case, lines 408-422.
template_fixtures(data) ==
    [k \in 1..Len(data) |->
        [name |-> data[k].name,
         mode |-> IF data[k].type = "extend" THEN "extend" ELSE "inline",
         exportName |-> _clean_export_name(data[k].name),
         type |-> data[k].type]]

\* _render_template, lines 132-139: the extra parameters of the test function.
IsExtendMode(fx) == fx.mode = "extend"

ExportNames(fxs) == [k \in 1..Len(fxs) |-> fxs[k].exportName]

fixture_params(tfixtures) == ExportNames(SelectSeq(tfixtures, IsExtendMode))

\* _render_template, lines 262-288: the block of one step.  A line is
\* [t, v]: "code" (the step's script), "todo" (the placeholder comment) or
\* "expected" (the expectation comment).
StepLines(step) ==
    (IF step.playwrightCode # "" THEN <<[t |-> "code", v |-> step.playwrightCode]>>
     ELSE IF step.disabled THEN <<>>
     ELSE <<[t |-> "todo", v |-> ""]>>)
    \o (IF step.expected # "" THEN <<[t |-> "expected", v |-> step.expected]>> ELSE <<>>)

StepBlock(step) ==
    [label |-> step.action, disabled |-> step.disabled, lines |-> StepLines(step)]

\* generate_test_case, lines 394-406: the steps as the template sees them.
template_steps(S, ids) ==
    [k \in 1..Len(ids) |->
        [action |-> S[ids[k]].action,
         playwrightCode |-> S[ids[k]].playwright_script,
         expected |-> S[ids[k]].expected,
         disabled |-> S[ids[k]].disabled,
         referenced_fixture_id |-> S[ids[k]].referenced_fixture_id,
         referenced_fixture_type |-> S[ids[k]].referenced_fixture_type]]

\* _render_template: the rendered file, as the parts the code computes: the
\* title, the parameter list of the test function ("page" and the extend
\* fixtures), and one block per step.  `formatted` says whether the
\* Prettier pass (best effort) changed the text.
_render_template(context, formatted) ==
    [kind |-> "spec",
     title |-> context.testCaseName,
     params |-> <<Str_page>> \o fixture_params(context.fixtures),
     body |-> [k \in 1..Len(context.steps) |-> StepBlock(context.steps[k])],
     formatted |-> formatted]

\* generate_test_case: [success, content, filename].  `io` is what the
\* environment does during the request: io.gen says whether the template
\* loads (an exception makes the generator return success = False),
\* io.formatted whether the Prettier pass changed the text, io.write whether
\* the file system accepts writes, io.glob the order in which the project
\* folders are listed.
generate_test_case(S, F, TC, A, t, io) ==
    IF t \notin DOMAIN TC \/ ~io.gen THEN [success |-> FALSE]
    ELSE [success |-> TRUE,
          content |-> _render_template(
              [testCaseName |-> _clean_test_name(TC[t].name),
               steps |-> template_steps(S, get_steps_by_test_case(S, t)),
               fixtures |-> template_fixtures(fixtures_data(S, F, A, t))],
              io.formatted),
          filename |-> TestFileName(TC[t].name)]

\* --------------------------------------------------------------- file system
write_file(FS, path, content) ==
    [p \in DOMAIN FS \cup {path} |-> IF p = path THEN content ELSE FS[p]]

rename_file(FS, old, new) ==
    [p \in (DOMAIN FS \ {old}) \cup {new} |-> IF p = new THEN FS[old] ELSE FS[p]]

\* playwright_project.py get_project_path: the folder of a project, or None
\* when the folder does not exist.
FolderIfExists(D, folder) == IF folder \in D THEN folder ELSE NoDir

get_project_path(D, project_name) == FolderIfExists(D, clean_folder_name(project_name))

\* save_test_case_to_project, lines 559-597: an existing old file that is
\* not the target is renamed to the target; otherwise the content is
\* written to the target.  `old` is the stored column as it is, a relative
\* path: Path(old).exists() looks for it under the working directory.
place_test_file(FS, old, target_file_path, content) ==
    IF old # NoPath /\ old \in DOMAIN FS /\ old # target_file_path
    THEN rename_file(FS, old, target_file_path)
    ELSE write_file(FS, target_file_path, content)

save_test_case_at(project_path, FS, test_result, old, io) ==
    IF project_path = NoDir \/ ~io.write
    THEN [success |-> FALSE, files |-> FS, test_file_path |-> old]
    ELSE [success |-> TRUE,
          files |-> place_test_file(FS, old,
                                    Path(project_path, "tests", test_result.filename),
                                    test_result.content),
          test_file_path |-> Path(Relative, "tests", test_result.filename)]

\* save_test_case_to_project: [success, files, test_file_path].  `old` is the
\* test_file_path column of the row before the save.
save_test_case_to_project(D, FS, project_name, test_result, old, io) ==
    IF ~test_result.success
    THEN [success |-> FALSE, files |-> FS, test_file_path |-> old]
    ELSE save_test_case_at(get_project_path(D, project_name), FS, test_result, old, io)

\* _read_test_case_file_content, lines 34-50: a relative path is looked up
\* in every project folder, in the order the folders are listed, and the
\* first folder that holds such a file wins.
RECURSIVE FirstMatch(_, _, _)
FirstMatch(glob, FS, path) ==
    IF glob = <<>> THEN path
    ELSE IF Path(Head(glob), path.sub, path.name) \in DOMAIN FS
         THEN Path(Head(glob), path.sub, path.name)
         ELSE FirstMatch(Tail(glob), FS, path)

\* lines 53-60: the content of the file, or None when there is no file.
ReadFile(FS, file_path) == IF file_path \in DOMAIN FS THEN FS[file_path] ELSE NoScript

_read_test_case_file_content(FS, test_file_path, glob) ==
    IF test_file_path = NoPath THEN NoScript
    ELSE ReadFile(FS, IF test_file_path.dir = Relative
                      THEN FirstMatch(glob, FS, test_file_path)
                      ELSE test_file_path)

\* The content that was read back is stored on the row, with the new path.
store_test_case_file(TC, t, test_file_path, file_content) ==
    [TC EXCEPT ![t].test_file_path = test_file_path,
               ![t].playwright_script =
                   IF file_content # NoScript THEN file_content ELSE @]

read_back_test_case(TC, FS, t, save_result, io) ==
    IF ~save_result.success THEN [ok |-> FALSE, test_cases |-> TC, files |-> FS]
    ELSE [ok |-> TRUE,
          test_cases |->
              store_test_case_file(TC, t, save_result.test_file_path,
                  _read_test_case_file_content(save_result.files,
                                               save_result.test_file_path, io.glob)),
          files |-> save_result.files]

\* The generate / save / read-back sequence that create_test_case,
\* update_test_case and regenerate_test_case_script share: the test case
\* rows and the files afterwards, and whether every stage succeeded.
generate_and_save_test_case(S, F, TC, A, P, D, FS, t, io) ==
    IF t \notin DOMAIN TC THEN [ok |-> FALSE, test_cases |-> TC, files |-> FS]
    ELSE IF TC[t].project_id \notin DOMAIN P
    THEN [ok |-> FALSE, test_cases |-> TC, files |-> FS]
    ELSE read_back_test_case(TC, FS, t,
             save_test_case_to_project(D, FS, P[TC[t].project_id].name,
                                       generate_test_case(S, F, TC, A, t, io),
                                       TC[t].test_file_path, io),
             io)

\* crud/test_case.py regenerate_test_case_script.
regenerate_test_case_script(S, F, TC, A, P, D, FS, t, io) ==
    generate_and_save_test_case(S, F, TC, A, P, D, FS, t, io)

\* crud/test_case.py create_test_case: the row is committed first; the file
\* is generated afterwards, best effort.
crud_create_test_case(S, F, TC, A, P, D, FS, t, tc, io) ==
    generate_and_save_test_case(
        S, F,
        Insert(TC, t, [project_id |-> tc.project_id,
                       name |-> tc.name,
                       playwright_script |-> tc.playwright_script,
                       test_file_path |-> NoPath]),
        A, P, D, FS, t, io)

\* crud/test_case.py update_test_case.  A TestCaseUpdate is
\* [set, name, playwright_script]; the file is regenerated only when one of
\* the listed fields was sent.
updated_test_cases(TC, t, u) ==
    [TC EXCEPT ![t].name = IF "name" \in u.set THEN u.name ELSE @,
               ![t].playwright_script =
                   IF "playwright_script" \in u.set THEN u.playwright_script ELSE @]

crud_update_test_case(S, F, TC, A, P, D, FS, t, u, io) ==
    IF u.set \cap {"name", "playwright_script"} # {}
    THEN generate_and_save_test_case(S, F, updated_test_cases(TC, t, u),
                                     A, P, D, FS, t, io)
    ELSE [ok |-> FALSE, test_cases |-> updated_test_cases(TC, t, u), files |-> FS]

\* ------------------------------------------- services/playwright_fixture.py
\* The content a fixture file is generated from: the script column, or the
\* placeholder comment when the column is empty.
Placeholder == [kind |-> "placeholder"]

fixture_content(script) == IF script = NoScript THEN Placeholder ELSE script

\* regenerate_fixture_with_steps, lines 436-447: the steps handed to the
\* fixture template.
fixture_steps_data(S, ids) ==
    [k \in 1..Len(ids) |->
        [order |-> S[ids[k]].order,
         action |-> S[ids[k]].action,
         playwright_script |-> S[ids[k]].playwright_script,
         expected |-> S[ids[k]].expected]]

\* generate_fixture, lines 258-283, once the export name is computed.
rendered_fixture(name, fixture_type, content, description, steps_data, export_name, io) ==
    [success |-> TRUE,
     content |-> [kind |-> "fixture",
                  name |-> name,
                  type |-> fixture_type,
                  exportName |-> export_name,
                  content |-> content,
                  description |-> description,
                  steps |-> steps_data,
                  formatted |-> io.formatted],
     export_name |-> export_name,
     filename |-> FixtureFileName(export_name)]

\* generate_fixture: [success, content, export_name, filename].
generate_fixture(name, fixture_type, content, description, steps_data, io) ==
    IF ~io.gen THEN [success |-> FALSE]
    ELSE rendered_fixture(name, fixture_type, content, description, steps_data,
                          _clean_export_name(name), io)

save_fixture_at(project_path, FS, fixture_result, io) ==
    IF project_path = NoDir \/ ~io.write
    THEN [success |-> FALSE, files |-> FS, file_path |-> NoPath]
    ELSE [success |-> TRUE,
          files |-> write_file(FS, Path(project_path, "fixtures", fixture_result.filename),
                               fixture_result.content),
          file_path |-> Path(project_path, "fixtures", fixture_result.filename)]

\* save_fixture_to_project: [success, files, file_path]; the path returned
\* is the absolute path of the file.
save_fixture_to_project(D, FS, project_name, fixture_result, io) ==
    IF ~fixture_result.success
    THEN [success |-> FALSE, files |-> FS, file_path |-> NoPath]
    ELSE save_fixture_at(get_project_path(D, project_name), FS, fixture_result, io)

\* crud/fixture.py _read_fixture_file_content.
_read_fixture_file_content(FS, fixture_file_path, glob) ==
    IF fixture_file_path = NoPath THEN NoScript
    ELSE ReadFile(FS, IF fixture_file_path.dir = Relative
                      THEN FirstMatch(glob, FS, fixture_file_path)
                      ELSE fixture_file_path)

\* ------------------------------------------------------------ crud/fixture.py
\* create_fixture / update_fixture, after a successful save: the file
\* information and the content read back are stored on the row.
store_fixture_file(F, f, fixture_result, file_path, file_content) ==
    [F EXCEPT ![f].filename = fixture_result.filename,
              ![f].export_name = fixture_result.export_name,
              ![f].fixture_file_path = file_path,
              ![f].playwright_script =
                  IF file_content # NoScript THEN file_content ELSE @]

read_back_fixture(F, FS, f, fixture_result, save_result, io) ==
    IF ~save_result.success THEN [ok |-> FALSE, fixtures |-> F, files |-> FS]
    ELSE [ok |-> TRUE,
          fixtures |->
              store_fixture_file(F, f, fixture_result, save_result.file_path,
                  _read_fixture_file_content(save_result.files,
                                             save_result.file_path, io.glob)),
          files |-> save_result.files]

save_and_read_back_fixture(F, D, FS, f, project_name, fixture_result, io) ==
    read_back_fixture(F, FS, f, fixture_result,
                      save_fixture_to_project(D, FS, project_name, fixture_result, io),
                      io)

\* The generate / save / read-back sequence of create_fixture and
\* update_fixture (no steps are handed to the template there).
generate_and_save_fixture(F, P, D, FS, f, io) ==
    save_and_read_back_fixture(F, D, FS, f, P[F[f].project_id].name,
        generate_fixture(F[f].name, F[f].type, fixture_content(F[f].playwright_script),
                         P[F[f].project_id].name, <<>>, io),
        io)

\* create_fixture, after the project was found.
crud_create_fixture(F, P, D, FS, f, fx, io) ==
    generate_and_save_fixture(
        Insert(F, f, [project_id |-> fx.project_id,
                      name |-> fx.name,
                      type |-> fx.type,
                      playwright_script |-> fx.playwright_script,
                      filename |-> NoName,
                      export_name |-> NoName,
                      fixture_file_path |-> NoPath]),
        P, D, FS, f, io)

\* update_fixture.  A FixtureUpdate is [set, name, type, playwright_script];
\* the file is regenerated only when the script was sent.
updated_fixtures(F, f, u) ==
    [F EXCEPT ![f].name = IF "name" \in u.set THEN u.name ELSE @,
              ![f].type = IF "type" \in u.set THEN u.type ELSE @,
              ![f].playwright_script =
                  IF "playwright_script" \in u.set THEN u.playwright_script ELSE @]

crud_update_fixture(F, P, D, FS, f, u, io) ==
    IF "playwright_script" \in u.set /\ F[f].project_id \in DOMAIN P
    THEN generate_and_save_fixture(updated_fixtures(F, f, u), P, D, FS, f, io)
    ELSE [ok |-> FALSE, fixtures |-> updated_fixtures(F, f, u), files |-> FS]

\* regenerate_fixture_with_steps, the definition in effect (the second one
\* of the module, lines 417-485), after the save: the file information is
\* stored on the row.
record_fixture_file(F, FS, f, fixture_result, save_result) ==
    IF ~save_result.success THEN [ok |-> FALSE, fixtures |-> F, files |-> FS]
    ELSE [ok |-> TRUE,
          fixtures |-> [F EXCEPT ![f].filename = fixture_result.filename,
                                 ![f].export_name = fixture_result.export_name,
                                 ![f].fixture_file_path = save_result.file_path],
          files |-> save_result.files]

save_and_record_fixture(F, D, FS, f, project_name, fixture_result, io) ==
    record_fixture_file(F, FS, f, fixture_result,
                        save_fixture_to_project(D, FS, project_name, fixture_result, io))

\* regenerate_fixture_with_steps: [ok, fixtures, files].
regenerate_fixture_with_steps(S, F, P, D, FS, f, io) ==
    IF f \notin DOMAIN F THEN [ok |-> FALSE, fixtures |-> F, files |-> FS]
    ELSE IF F[f].project_id \notin DOMAIN P
    THEN [ok |-> FALSE, fixtures |-> F, files |-> FS]
    ELSE save_and_record_fixture(F, D, FS, f, P[F[f].project_id].name,
             generate_fixture(F[f].name, F[f].type,
                              fixture_content(F[f].playwright_script),
                              P[F[f].project_id].name,
                              fixture_steps_data(S, get_steps_by_fixture(S, f)),
                              io),
             io)

\* ------------------------------------------- services/playwright_project.py
\* regenerate_fixtures_index_for_project, lines 572-584: the export name the
\* index computes for a fixture.
KeepInIndexName(c) == IsWord(c) \/ IsSpace(c)

index_export_name(name) ==
    CamelCase(SplitFrom(Lower(SelectSeq(name, KeepInIndexName)), <<>>,
                        Spaces \cup {"-", "_"}))

\* The index template (backend/template/index.fixture.template): the
\* branch for a project with fixtures holds one {{#each fixtures}} block
\* whose body names the import name, the export name and the file name and
\* ends with a separator inside {{#unless @last}}; the {{else}} branch is
\* the placeholder text.
IndexTemplate ==
    [each |-> <<<<[t |-> "importName"], [t |-> "exportName"], [t |-> "fileName"],
                  [t |-> "unless_last", v |-> ","]>>>>,
     else |-> <<[t |-> "text", v |-> "placeholder"]>>]

\* A loop item that keeps the content of {{#unless @last}} on the last
\* fixture as well; C15 tells it from the renderer of the code.
render_loop_token_KeepSeparator(token, fixture, is_last) ==
    CASE token.t = "unless_last" -> <<[t |-> "sep", v |-> token.v]>>
      [] token.t = "text" -> <<token>>
      [] OTHER -> <<[t |-> token.t, v |-> fixture[token.t]]>>

\* FixtureIndexGenerator._render_template, lines 94-103: one token of the
\* loop body for one fixture.  {{this.importName}}, {{this.exportName}} and
\* {{this.fileName}} are replaced by the fixture's values; the content of
\* {{#unless @last}} is kept except on the last fixture.
render_loop_token(token, fixture, is_last) ==
    CASE token.t = "unless_last" ->
             (IF is_last THEN <<>> ELSE <<[t |-> "sep", v |-> token.v]>>)
      [] token.t = "text" -> <<token>>
      [] OTHER -> <<[t |-> token.t, v |-> fixture[token.t]]>>

render_loop_item(each_content, fixture, is_last) ==
    Concat([k \in 1..Len(each_content) |->
               render_loop_token(each_content[k], fixture, is_last)])

\* lines 91-106: the loop over the fixtures for one {{#each}} block.
render_each(each_content, fixture_list) ==
    Concat([i \in 1..Len(fixture_list) |->
               render_loop_item(each_content, fixture_list[i],
                                i = Len(fixture_list))])

\* FixtureIndexGenerator._render_template: the branch of {{#if
\* fixtures.length}} for a list that is not empty, with every {{#each}}
\* block replaced by its loop result; the {{else}} branch otherwise.
index_render_template(template, fixture_list) ==
    IF fixture_list # <<>>
    THEN Concat([b \in 1..Len(template.each) |->
                    render_each(template.each[b], fixture_list)])
    ELSE template.else

\* FixtureIndexGenerator.generate_index: [success, content].
generate_index(fixture_list, io) ==
    IF ~io.gen THEN [success |-> FALSE]
    ELSE [success |-> TRUE,
          content |-> [kind |-> "index",
                       text |-> index_render_template(IndexTemplate, fixture_list),
                       formatted |-> io.formatted]]

\* save_fixtures_index: the index is written when the folder exists.
save_fixtures_index(D, FS, folder, index_result, io) ==
    IF ~index_result.success \/ folder \notin D \/ ~io.write THEN FS
    ELSE write_file(FS, Path(folder, "fixtures", <<"index.ts">>), index_result.content)

\* The rows of a query without ORDER BY, in one fixed order.
RECURSIVE RowsOf(_)
RowsOf(ids) ==
    IF ids = {} THEN <<>>
    ELSE LET first == CHOOSE i \in ids : TRUE IN <<first>> \o RowsOf(ids \ {first})

\* regenerate_fixtures_index_for_project, lines 566-590: one entry per
\* fixture row of the project.
index_fixtures_data(F, ids) ==
    [k \in 1..Len(ids) |->
        [importName |-> index_export_name(F[ids[k]].name),
         exportName |-> index_export_name(F[ids[k]].name),
         fileName |-> Append(index_export_name(F[ids[k]].name), ".fixture")]]

\* regenerate_fixtures_index_for_project: the files afterwards.
regenerate_fixtures_index_for_project(F, P, D, FS, p, io) ==
    IF p \notin DOMAIN P THEN FS
    ELSE save_fixtures_index(D, FS, clean_folder_name(P[p].name),
             generate_index(
                 index_fixtures_data(F, RowsOf({g \in DOMAIN F : F[g].project_id = p})),
                 io),
             io)

\* ------------------------------------------------------- api/endpoints/steps.py
\* The last request: the handler's name, whether it answered with success,
\* the rows it was about (project, test case, fixture, step; for the create
\* of a test case or fixture the project its body named), the name,
\* order and fixture the request carried, whether the environment let generation,
\* formatting and writing succeed, whether the regeneration of the test
\* case's and of the fixture's file returned True, the content a
\* generation endpoint returns, how the scaffolding tool ended, whether the
\* regeneration of the config got as far as its destination, the
\* playwright_script a fixture request submitted, the HTTP status a
\* create request for a test case or a fixture was refused with, and
\* whether a step request left the action blank (it carried an empty action
\* or none, and an update that carried none found none stored), and the
\* message a reorder request was answered with.
Response(op, ok, io) ==
    [op |-> op, ok |-> ok, pr |-> {}, tc |-> {}, fx |-> {}, st |-> {},
     name |-> NoName, order |-> <<>>, ref |-> None,
     gen |-> io.gen, write |-> io.write, formatted |-> io.formatted,
     regen_tc |-> FALSE, regen_fx |-> FALSE,
     content |-> NoScript, tool |-> None, regen_config |-> FALSE,
     script |-> NoScript, error |-> None, blank_action |-> FALSE,
     message |-> None]

\* The status of HTTPException(status_code=404) and the one the global
\* exception handler gives every other exception.
HTTP_404_NOT_FOUND == "404"
HTTP_500_INTERNAL_SERVER_ERROR == "500"

\* The environment of a handler that generates nothing.
NoIo == [gen |-> TRUE, write |-> TRUE, formatted |-> FALSE]

\* A request that changes no row and no file: the answer alone is recorded.
Answered(r) ==
    /\ resp' = r
    /\ UNCHANGED <<projects, dirs, fixtures, test_cases, steps, test_case_fixtures, files,
                   pages, page_locators, project_settings, in_flight>>

\* A request that is answered with an error: nothing is committed.
Rejected(r) == Answered(r)

\* The regeneration that create_test_case_step, create_fixture_step,
\* update_step and delete_step end with: the fixture's file first, then the
\* test case's file, each best effort.
after_step(S, r1, r2) ==
    [steps |-> S, fixtures |-> r1.fixtures, test_cases |-> r2.test_cases,
     files |-> r2.files, regen_fx |-> r1.ok, regen_tc |-> r2.ok]

then_regenerate_test_case(S, test_case_id, io, r1) ==
    after_step(S, r1,
        IF test_case_id # None
        THEN regenerate_test_case_script(S, r1.fixtures, test_cases, test_case_fixtures,
                                         projects, dirs, r1.files, test_case_id, io)
        ELSE [ok |-> FALSE, test_cases |-> test_cases, files |-> r1.files])

regenerate_after_step(S, fixture_id, test_case_id, io) ==
    then_regenerate_test_case(S, test_case_id, io,
        IF fixture_id # None
        THEN regenerate_fixture_with_steps(S, fixtures, projects, dirs, files,
                                           fixture_id, io)
        ELSE [ok |-> FALSE, fixtures |-> fixtures, files |-> files])

\* A step handler that committed: the tables and files afterwards.
StepsCommitted(after, r) ==
    /\ steps' = after.steps
    /\ fixtures' = after.fixtures
    /\ test_cases' = after.test_cases
    /\ files' = after.files
    /\ resp' = [r EXCEPT !.regen_tc = after.regen_tc, !.regen_fx = after.regen_fx]
    /\ UNCHANGED <<projects, dirs, test_case_fixtures,
                   pages, page_locators, project_settings, in_flight>>

\* crud.create_step as the three creating handlers call it: an error is
\* answered with a failure and nothing is persisted; otherwise the row is
\* inserted and the files the handler names are regenerated.
CreateStepOutcome(s, error, regen_fixture, regen_test_case, r, io) ==
    IF error # "ok" THEN Rejected([r EXCEPT !.ok = FALSE, !.st = {}])
    ELSE StepsCommitted(
             regenerate_after_step(
                 Insert(steps, NewStepId(steps), crud_create_step_row(fixtures, s)),
                 regen_fixture, regen_test_case, io),
             r)

CreateStep(op, s, regen_fixture, regen_test_case, tc, fx, io) ==
    CreateStepOutcome(s, crud_create_step_error(fixtures, test_cases, s),
                      regen_fixture, regen_test_case,
                      [Response(op, TRUE, io)
                          EXCEPT !.order = <<s.order>>, !.ref = s.referenced_fixture_id,
                                 !.blank_action = (s.action = <<>>),
                                 !.tc = tc, !.fx = fx, !.st = {NewStepId(steps)}],
                      io)

\* POST /steps/test-cases/{test_case_id}/steps
create_test_case_step(test_case_id, step, io) ==
    /\ DOMAIN steps # StepIds
    /\ CreateStep("create_test_case_step", [step EXCEPT !.test_case_id = test_case_id],
                  None, test_case_id, {test_case_id}, {}, io)

\* POST /steps/fixtures/{fixture_id}/steps
create_fixture_step(fixture_id, step, io) ==
    /\ DOMAIN steps # StepIds
    /\ CreateStep("create_fixture_step",
                  [step EXCEPT !.referenced_fixture_id = fixture_id,
                               !.test_case_id = None],
                  fixture_id, None, {}, {fixture_id}, io)

\* The rows a step belongs to, for the answer: its test case, or the fixture
\* that owns it when it has no test case.
OwnerTestCase(row) == {row.test_case_id} \ {None}
OwnerFixture(row) ==
    IF row.test_case_id = None THEN {row.referenced_fixture_id} \ {None} ELSE {}

\* POST /steps/ : the row is created and no file is regenerated.
create_step(step, io) ==
    /\ DOMAIN steps # StepIds
    /\ CreateStep("create_step", step, None, None,
                  OwnerTestCase(step), OwnerFixture(step), io)

\* PUT /steps/{step_id}
UpdateStepCommitted(step_id, u, row, io) ==
    StepsCommitted(
        regenerate_after_step([steps EXCEPT ![step_id] = row],
                              row.referenced_fixture_id, row.test_case_id, io),
        [Response("update_step", TRUE, io)
            EXCEPT !.tc = OwnerTestCase(row), !.fx = OwnerFixture(row),
                   !.st = {step_id}, !.order = <<row.order>>,
                   !.ref = IF "referenced_fixture_id" \in u.set
                           THEN u.referenced_fixture_id ELSE None,
                   !.blank_action = IF "action" \in u.set THEN u.action = <<>>
                                    ELSE steps[step_id].action = <<>>])

update_step(step_id, u, io) ==
    IF step_id \notin DOMAIN steps THEN Rejected(Response("update_step", FALSE, io))
    ELSE IF crud_update_step_error(fixtures, steps, step_id, u) # "ok"
    THEN Rejected(Response("update_step", FALSE, io))
    ELSE UpdateStepCommitted(step_id, u,
                             crud_update_step_row(fixtures, steps, step_id, u), io)

\* DELETE /steps/{step_id}
delete_step(step_id, io) ==
    IF step_id \notin DOMAIN steps THEN Rejected(Response("delete_step", FALSE, io))
    ELSE StepsCommitted(
             regenerate_after_step(Delete(steps, step_id),
                                   steps[step_id].referenced_fixture_id,
                                   steps[step_id].test_case_id, io),
             [Response("delete_step", TRUE, io)
                 EXCEPT !.tc = OwnerTestCase(steps[step_id]),
                        !.fx = OwnerFixture(steps[step_id]), !.st = {step_id}])

\* A reordering that gives the moved step its new order and shifts no other.
shift_orders_MovedStepOnly(S, ids, step_id, new_order) ==
    [S EXCEPT ![step_id].order = new_order]

\* The shifting that both reorder handlers do: the steps between the old
\* and the new position move by one, the moved step takes the new order.
shift_orders(S, ids, step_id, new_order) ==
    [i \in DOMAIN S |->
       IF i = step_id THEN [S[i] EXCEPT !.order = new_order]
       ELSE IF i \notin ids THEN S[i]
       ELSE IF new_order > S[step_id].order
               /\ S[step_id].order < S[i].order /\ S[i].order <= new_order
            THEN [S[i] EXCEPT !.order = @ - 1]
       ELSE IF new_order < S[step_id].order
               /\ new_order <= S[i].order /\ S[i].order < S[step_id].order
            THEN [S[i] EXCEPT !.order = @ + 1]
       ELSE S[i]]

\* Both reorder handlers, once the step was found among `ids`: a position
\* outside 1..N is refused, the step's own position is a no-op.
Reordered(ids, step_id, new_order, r) ==
    IF new_order < 1 \/ new_order > Cardinality(ids) THEN Rejected([r EXCEPT !.ok = FALSE])
    ELSE /\ steps' = IF steps[step_id].order = new_order THEN steps
                     ELSE shift_orders(steps, ids, step_id, new_order)
         /\ resp' = [r EXCEPT !.message = IF steps[step_id].order = new_order
                                          THEN "Step is already at target position"
                                          ELSE "Step reordered successfully"]
         /\ UNCHANGED <<projects, dirs, fixtures, test_cases, test_case_fixtures, files,
                        pages, page_locators, project_settings, in_flight>>

\* PATCH /steps/test-cases/{test_case_id}/steps/reorder
reorder_test_case_steps(test_case_id, step_id, new_order) ==
    IF step_id \notin DOMAIN steps
    THEN Rejected(Response("reorder_test_case_steps", FALSE, NoIo))
    ELSE IF steps[step_id].test_case_id # test_case_id
    THEN Rejected(Response("reorder_test_case_steps", FALSE, NoIo))
    ELSE Reordered({i \in DOMAIN steps : steps[i].test_case_id = test_case_id},
                   step_id, new_order,
                   [Response("reorder_test_case_steps", TRUE, NoIo)
                       EXCEPT !.tc = {test_case_id}, !.st = {step_id},
                              !.order = <<new_order>>])

\* The renumbering that both auto-reorder handlers do: the steps get
\* 1, 2, ... in their current order.
renumber(S, sorted) ==
    [i \in DOMAIN S |->
        IF \E k \in 1..Len(sorted) : sorted[k] = i
        THEN [S[i] EXCEPT !.order = CHOOSE k \in 1..Len(sorted) : sorted[k] = i]
        ELSE S[i]]

\* PATCH /steps/test-cases/{test_case_id}/steps/auto-reorder
auto_reorder_test_case_steps(test_case_id) ==
    /\ steps' = renumber(steps, get_steps_by_test_case(steps, test_case_id))
    /\ resp' = [Response("auto_reorder_test_case_steps", TRUE, NoIo)
                  EXCEPT !.tc = {test_case_id}]
    /\ UNCHANGED <<projects, dirs, fixtures, test_cases, test_case_fixtures, files,
                   pages, page_locators, project_settings, in_flight>>

\* PATCH /steps/fixtures/{fixture_id}/steps/reorder
reorder_fixture_steps(fixture_id, step_id, new_order) ==
    IF step_id \notin DOMAIN steps
    THEN Rejected(Response("reorder_fixture_steps", FALSE, NoIo))
    ELSE IF steps[step_id].referenced_fixture_id # fixture_id
    THEN Rejected(Response("reorder_fixture_steps", FALSE, NoIo))
    ELSE Reordered({i \in DOMAIN steps : steps[i].referenced_fixture_id = fixture_id},
                   step_id, new_order,
                   [Response("reorder_fixture_steps", TRUE, NoIo)
                       EXCEPT !.fx = {fixture_id}, !.st = {step_id},
                              !.order = <<new_order>>])

\* PATCH /steps/fixtures/{fixture_id}/steps/auto-reorder
auto_reorder_fixture_steps(fixture_id) ==
    /\ steps' = renumber(steps, get_steps_by_fixture(steps, fixture_id))
    /\ resp' = [Response("auto_reorder_fixture_steps", TRUE, NoIo)
                  EXCEPT !.fx = {fixture_id}]
    /\ UNCHANGED <<projects, dirs, fixtures, test_cases, test_case_fixtures, files,
                   pages, page_locators, project_settings, in_flight>>

\* ---------------------------------------------------- api/endpoints/fixtures.py
\* A fixture handler that committed: the index of the project is
\* regenerated last, best effort.
FixturesCommitted(result, project_id, r, io) ==
    /\ fixtures' = result.fixtures
    /\ files' = regenerate_fixtures_index_for_project(result.fixtures, projects, dirs,
                                                      result.files, project_id, io)
    /\ resp' = [r EXCEPT !.regen_fx = result.ok]
    /\ UNCHANGED <<projects, dirs, test_cases, steps, test_case_fixtures,
                   pages, page_locators, project_settings, in_flight>>

\* The id the database gives a new fixture row.
NewFixtureId(F) == CHOOSE f \in FixtureIds \ DOMAIN F : TRUE

\* POST /fixtures/
create_fixture(fx, io) ==
    /\ DOMAIN fixtures # FixtureIds
    /\ IF fx.project_id \notin DOMAIN projects
       THEN Rejected([Response("create_fixture", FALSE, io)
                         EXCEPT !.pr = {fx.project_id},
                                !.error = HTTP_404_NOT_FOUND])
       ELSE FixturesCommitted(
                crud_create_fixture(fixtures, projects, dirs, files,
                                    NewFixtureId(fixtures), fx, io),
                fx.project_id,
                [Response("create_fixture", TRUE, io)
                    EXCEPT !.fx = {NewFixtureId(fixtures)}, !.name = fx.name,
                           !.pr = {fx.project_id},
                           !.script = fx.playwright_script],
                io)

\* PUT /fixtures/{fixture_id}
update_fixture(fixture_id, u, io) ==
    IF fixture_id \notin DOMAIN fixtures
    THEN Rejected(Response("update_fixture", FALSE, io))
    ELSE FixturesCommitted(
             crud_update_fixture(fixtures, projects, dirs, files, fixture_id, u, io),
             fixtures[fixture_id].project_id,
             [Response("update_fixture", TRUE, io)
                 EXCEPT !.fx = {fixture_id},
                        !.name = IF "name" \in u.set THEN u.name ELSE NoName,
                        !.script = IF "playwright_script" \in u.set
                                   THEN u.playwright_script ELSE NoScript],
             io)

\* DELETE /fixtures/{fixture_id}: a fixture that a step still references
\* cannot be deleted (the foreign key of steps.referenced_fixture_id).
delete_fixture(fixture_id, io) ==
    IF fixture_id \notin DOMAIN fixtures
    THEN Rejected(Response("delete_fixture", FALSE, io))
    ELSE IF \E i \in DOMAIN steps : steps[i].referenced_fixture_id = fixture_id
    THEN Rejected([Response("delete_fixture", FALSE, io) EXCEPT !.fx = {fixture_id}])
    ELSE /\ fixtures' = Delete(fixtures, fixture_id)
         /\ test_case_fixtures' = {r \in test_case_fixtures : r.fixture_id # fixture_id}
         /\ files' = regenerate_fixtures_index_for_project(
                         Delete(fixtures, fixture_id), projects, dirs, files,
                         fixtures[fixture_id].project_id, io)
         /\ resp' = [Response("delete_fixture", TRUE, io) EXCEPT !.fx = {fixture_id}]
         /\ UNCHANGED <<projects, dirs, test_cases, steps,
                        pages, page_locators, project_settings, in_flight>>

\* POST /fixtures/{fixture_id}/regenerate-file: the file is generated from
\* the row without its steps, saved, and the file information stored; a
\* failure of the generation or of the save is answered with an error and
\* nothing is stored.  The index is not regenerated.
regenerate_fixture_file(fixture_id, io) ==
    IF fixture_id \notin DOMAIN fixtures
    THEN Rejected([Response("regenerate_fixture_file", FALSE, io)
                      EXCEPT !.error = HTTP_404_NOT_FOUND])
    ELSE IF fixtures[fixture_id].project_id \notin DOMAIN projects
    THEN Rejected([Response("regenerate_fixture_file", FALSE, io)
                      EXCEPT !.fx = {fixture_id}, !.error = HTTP_404_NOT_FOUND])
    ELSE LET result ==
                 save_and_record_fixture(fixtures, dirs, files, fixture_id,
                     projects[fixtures[fixture_id].project_id].name,
                     generate_fixture(fixtures[fixture_id].name,
                         fixtures[fixture_id].type,
                         fixture_content(fixtures[fixture_id].playwright_script),
                         projects[fixtures[fixture_id].project_id].name, <<>>, io),
                     io)
         IN  IF ~result.ok
             THEN Rejected([Response("regenerate_fixture_file", FALSE, io)
                               EXCEPT !.fx = {fixture_id},
                                      !.error = HTTP_500_INTERNAL_SERVER_ERROR])
             ELSE /\ fixtures' = result.fixtures
                  /\ files' = result.files
                  /\ resp' = [Response("regenerate_fixture_file", TRUE, io)
                                EXCEPT !.fx = {fixture_id}, !.regen_fx = TRUE]
                  /\ UNCHANGED <<projects, dirs, test_cases, steps, test_case_fixtures,
                                 pages, page_locators, project_settings, in_flight>>

\* ------------------------------------------------- api/endpoints/test_cases.py
\* A test case handler that committed.
TestCasesCommitted(result, r) ==
    /\ test_cases' = result.test_cases
    /\ files' = result.files
    /\ resp' = [r EXCEPT !.regen_tc = result.ok]
    /\ UNCHANGED <<projects, dirs, fixtures, steps, test_case_fixtures,
                   pages, page_locators, project_settings, in_flight>>

\* The id the database gives a new test case row.
NewTestCaseId(TC) == CHOOSE t \in TestCaseIds \ DOMAIN TC : TRUE

\* create_test_case and update_test_case call regenerate_test_case_script
\* once more after the crud function returned.
regenerate_again(test_case_id, io, r1) ==
    regenerate_test_case_script(steps, fixtures, r1.test_cases, test_case_fixtures,
                                projects, dirs, r1.files, test_case_id, io)

\* POST /test-cases/ : crud.create_test_case looks for no project before it
\* adds the row; the commit of a row whose project_id names no project
\* raises the foreign key violation of test_cases.project_id, which nothing
\* catches before the global exception handler answers 500.
create_test_case(tc, io) ==
    /\ DOMAIN test_cases # TestCaseIds
    /\ IF tc.project_id \notin DOMAIN projects
       THEN Rejected([Response("create_test_case", FALSE, io)
                         EXCEPT !.pr = {tc.project_id},
                                !.error = HTTP_500_INTERNAL_SERVER_ERROR])
       ELSE TestCasesCommitted(
                regenerate_again(NewTestCaseId(test_cases), io,
                    crud_create_test_case(steps, fixtures, test_cases, test_case_fixtures,
                                          projects, dirs, files,
                                          NewTestCaseId(test_cases), tc, io)),
                [Response("create_test_case", TRUE, io)
                    EXCEPT !.tc = {NewTestCaseId(test_cases)}, !.name = tc.name,
                           !.pr = {tc.project_id}])

\* PUT /test-cases/{test_case_id}
update_test_case(test_case_id, u, io) ==
    IF test_case_id \notin DOMAIN test_cases
    THEN Rejected(Response("update_test_case", FALSE, io))
    ELSE TestCasesCommitted(
             regenerate_again(test_case_id, io,
                 crud_update_test_case(steps, fixtures, test_cases, test_case_fixtures,
                                       projects, dirs, files, test_case_id, u, io)),
             [Response("update_test_case", TRUE, io)
                 EXCEPT !.tc = {test_case_id},
                        !.name = IF "name" \in u.set THEN u.name ELSE NoName])

\* DELETE /test-cases/{test_case_id}: the row goes, with its steps (cascade)
\* and its fixture associations; no file is touched.
delete_test_case(test_case_id) ==
    IF test_case_id \notin DOMAIN test_cases
    THEN Rejected(Response("delete_test_case", FALSE, NoIo))
    ELSE /\ test_cases' = Delete(test_cases, test_case_id)
         /\ steps' = [i \in {j \in DOMAIN steps : steps[j].test_case_id # test_case_id}
                         |-> steps[i]]
         /\ test_case_fixtures' =
                {r \in test_case_fixtures : r.test_case_id # test_case_id}
         /\ resp' = [Response("delete_test_case", TRUE, NoIo) EXCEPT !.tc = {test_case_id}]
         /\ UNCHANGED <<projects, dirs, fixtures, files,
                        pages, page_locators, project_settings, in_flight>>

\* crud/test_case.py add_fixture_to_test_case: the new association gets the
\* order after the largest one of the test case.
NextFixtureOrder(A, t) ==
    IF {r \in A : r.test_case_id = t} = {} THEN 1
    ELSE 1 + (CHOOSE m \in {r.order : r \in {q \in A : q.test_case_id = t}} :
                 \A r \in {q \in A : q.test_case_id = t} : r.order <= m)

\* POST /test-cases/{test_case_id}/fixtures
add_fixture_to_test_case(test_case_id, fixture_id) ==
    IF \/ test_case_id \notin DOMAIN test_cases
       \/ fixture_id \notin DOMAIN fixtures
       \/ \E r \in test_case_fixtures :
             r.test_case_id = test_case_id /\ r.fixture_id = fixture_id
    THEN Rejected(Response("add_fixture_to_test_case", FALSE, NoIo))
    ELSE /\ test_case_fixtures' = test_case_fixtures \cup
                {[test_case_id |-> test_case_id, fixture_id |-> fixture_id,
                  order |-> NextFixtureOrder(test_case_fixtures, test_case_id)]}
         /\ resp' = [Response("add_fixture_to_test_case", TRUE, NoIo)
                        EXCEPT !.tc = {test_case_id}]
         /\ UNCHANGED <<projects, dirs, fixtures, test_cases, steps, files,
                        pages, page_locators, project_settings, in_flight>>

\* The association rows of one test case and one fixture (the primary key).
IsAssoc(r, test_case_id, fixture_id) ==
    r.test_case_id = test_case_id /\ r.fixture_id = fixture_id

\* DELETE /test-cases/{test_case_id}/fixtures/{fixture_id}: the row goes; the
\* other rows keep their orders.  No matching row is a 404.
remove_fixture_from_test_case(test_case_id, fixture_id) ==
    IF ~\E r \in test_case_fixtures : IsAssoc(r, test_case_id, fixture_id)
    THEN Rejected(Response("remove_fixture_from_test_case", FALSE, NoIo))
    ELSE /\ test_case_fixtures' =
                {r \in test_case_fixtures : ~IsAssoc(r, test_case_id, fixture_id)}
         /\ resp' = [Response("remove_fixture_from_test_case", TRUE, NoIo)
                        EXCEPT !.tc = {test_case_id}]
         /\ UNCHANGED <<projects, dirs, fixtures, test_cases, steps, files,
                        pages, page_locators, project_settings, in_flight>>

\* crud/test_case.py update_test_case_fixture_order: the UPDATE statement.
set_fixture_order(A, test_case_id, fixture_id, new_order) ==
    {IF IsAssoc(r, test_case_id, fixture_id) THEN [r EXCEPT !.order = new_order] ELSE r :
        r \in A}

\* PATCH /test-cases/{test_case_id}/fixtures/{fixture_id}/order
update_fixture_order(test_case_id, fixture_id, new_order) ==
    IF ~\E r \in test_case_fixtures : IsAssoc(r, test_case_id, fixture_id)
    THEN Rejected(Response("update_fixture_order", FALSE, NoIo))
    ELSE /\ test_case_fixtures' =
                set_fixture_order(test_case_fixtures, test_case_id, fixture_id, new_order)
         /\ resp' = [Response("update_fixture_order", TRUE, NoIo)
                        EXCEPT !.tc = {test_case_id}, !.order = <<new_order>>]
         /\ UNCHANGED <<projects, dirs, fixtures, test_cases, steps, files,
                        pages, page_locators, project_settings, in_flight>>

\* crud/test_case.py reorder_test_case_fixtures: one UPDATE per entry of the
\* list, in the order of the list.
RECURSIVE crud_reorder_test_case_fixtures(_, _, _)
crud_reorder_test_case_fixtures(A, test_case_id, fixture_orders) ==
    IF fixture_orders = <<>> THEN A
    ELSE crud_reorder_test_case_fixtures(
             set_fixture_order(A, test_case_id, Head(fixture_orders).fixture_id,
                               Head(fixture_orders).order),
             test_case_id, Tail(fixture_orders))

\* PATCH /test-cases/{test_case_id}/fixtures/reorder
reorder_test_case_fixtures(test_case_id, fixture_orders) ==
    IF test_case_id \notin DOMAIN test_cases
    THEN Rejected(Response("reorder_test_case_fixtures", FALSE, NoIo))
    ELSE /\ test_case_fixtures' =
                crud_reorder_test_case_fixtures(test_case_fixtures, test_case_id,
                                                fixture_orders)
         /\ resp' = [Response("reorder_test_case_fixtures", TRUE, NoIo)
                        EXCEPT !.tc = {test_case_id}]
         /\ UNCHANGED <<projects, dirs, fixtures, test_cases, steps, files,
                        pages, page_locators, project_settings, in_flight>>

\* POST /test-cases/{test_case_id}/generate-script: the generated content
\* is returned; nothing is stored.
Generated(test_case_id, io, test_result) ==
    IF ~test_result.success THEN Rejected(Response("generate_test_case_script", FALSE, io))
    ELSE Answered([Response("generate_test_case_script", TRUE, io)
                      EXCEPT !.tc = {test_case_id}, !.content = test_result.content])

generate_test_case_script(test_case_id, io) ==
    IF test_case_id \notin DOMAIN test_cases
    THEN Rejected(Response("generate_test_case_script", FALSE, io))
    ELSE Generated(test_case_id, io,
                   generate_test_case(steps, fixtures, test_cases, test_case_fixtures,
                                      test_case_id, io))

\* ------------------------------------------------------------ crud/project.py
\* How the run of `npx create-playwright` ends: with exit code 0, with
\* another exit code, or not at all (create_subprocess_exec raises, as it
\* does when npx is not installed).
ToolOutcomes == {"exit_0", "exit_nonzero", "not_run"}

\* The files that are not under a folder.
FilesOutside(FS, folder) == [p \in {q \in DOMAIN FS : q.dir # folder} |-> FS[p]]

\* _setup_custom_project_structure: fixtures/index.ts of an empty fixture
\* list is written; a failure is logged and nothing more.
setup_custom_project_structure(FS, folder, io) ==
    IF generate_index(<<>>, io).success /\ io.write
    THEN write_file(FS, Path(folder, "fixtures", <<"index.ts">>),
                    generate_index(<<>>, io).content)
    ELSE FS

\* playwright_project.py create_playwright_project: [success, dirs, files].
\* An existing folder is an error unless force_recreate, which removes it
\* and what it holds.  The folder is made, then the tool runs in it: after
\* exit code 0 the custom structure is set up; after another exit code the
\* folder is removed (lines 365-367); when the tool could not be started the
\* exception handler of lines 372-375 returns the error and removes nothing.
create_playwright_project(D, FS, project_name, force_recreate, tool, io) ==
    IF clean_folder_name(project_name) \in D /\ ~force_recreate
    THEN [success |-> FALSE, dirs |-> D, files |-> FS]
    ELSE IF tool = "exit_0"
    THEN [success |-> TRUE, dirs |-> D \cup {clean_folder_name(project_name)},
          files |-> setup_custom_project_structure(
                        FilesOutside(FS, clean_folder_name(project_name)),
                        clean_folder_name(project_name), io)]
    ELSE IF tool = "exit_nonzero"
    THEN [success |-> FALSE, dirs |-> D \ {clean_folder_name(project_name)},
          files |-> FilesOutside(FS, clean_folder_name(project_name))]
    ELSE [success |-> FALSE, dirs |-> D \cup {clean_folder_name(project_name)},
          files |-> FilesOutside(FS, clean_folder_name(project_name))]

\* The id the database gives a new project row.
NewProjectId(P) == CHOOSE p \in ProjectIds \ DOMAIN P : TRUE

\* POST /projects/ : the row is committed (lines 75-84); line 87 then reads
\* project.base_url, a field that ProjectCreate (schemas/project.py, lines
\* 7-15) does not declare.  The AttributeError leaves the handler before the
\* scaffolding of lines 90-117 is reached: the request is answered with an
\* error, the row stays, no folder is made and playwright_project_path
\* stays NULL, whatever the environment io would have let the scaffolding
\* do.
create_project(project, io) ==
    /\ DOMAIN projects # ProjectIds
    /\ projects' = Insert(projects, NewProjectId(projects),
                          [name |-> project.name, playwright_project_path |-> NoName])
    /\ resp' = [Response("create_project", FALSE, io)
                   EXCEPT !.pr = {NewProjectId(projects)}, !.name = project.name]
    /\ UNCHANGED <<dirs, fixtures, test_cases, steps, test_case_fixtures, files,
                   pages, page_locators, project_settings, in_flight>>

\* POST /projects/{project_id}/playwright-recreate: the folder is scaffolded
\* again with force_recreate; a failed scaffolding is answered with an
\* error.  The row is not touched.
recreate_playwright_project(project_id, tool, io) ==
    IF project_id \notin DOMAIN projects
    THEN Rejected(Response("recreate_playwright_project", FALSE, io))
    ELSE LET result == create_playwright_project(dirs, files, projects[project_id].name,
                                                 TRUE, tool, io)
         IN  /\ dirs' = result.dirs
             /\ files' = result.files
             /\ resp' = [Response("recreate_playwright_project", result.success, io)
                            EXCEPT !.pr = {project_id}, !.tool = tool]
             /\ UNCHANGED <<projects, fixtures, test_cases, steps, test_case_fixtures,
                            pages, page_locators, project_settings, in_flight>>

\* PUT /projects/{project_id}: the fields the client sent (exclude_unset) are
\* set on the row; nothing else changes.
update_project(project_id, project) ==
    IF project_id \notin DOMAIN projects
    THEN Rejected(Response("update_project", FALSE, NoIo))
    ELSE /\ projects' = [projects EXCEPT ![project_id] =
                            [f \in DOMAIN projects[project_id] |->
                                IF f \in DOMAIN project THEN project[f]
                                ELSE projects[project_id][f]]]
         /\ resp' = [Response("update_project", TRUE, NoIo)
                        EXCEPT !.pr = {project_id},
                               !.name = IF "name" \in DOMAIN project THEN project.name
                                        ELSE projects[project_id].name]
         /\ UNCHANGED <<dirs, fixtures, test_cases, steps, test_case_fixtures, files,
                        pages, page_locators, project_settings, in_flight>>

\* The rows that go with a project (cascade): its test cases and fixtures.
TestCasesOf(p) == {t \in DOMAIN test_cases : test_cases[t].project_id = p}
FixturesOf(p) == {f \in DOMAIN fixtures : fixtures[f].project_id = p}

\* The steps that survive the deletion of a project's test cases.
StepsOutside(p) == {i \in DOMAIN steps : steps[i].test_case_id \notin TestCasesOf(p)}

\* playwright_project.py delete_project: the folder and what it holds are
\* removed when the folder exists.
RemoveFolder(D, folder, io) == IF io.write THEN D \ {folder} ELSE D

RemoveFiles(D, FS, folder, io) ==
    IF folder \in D /\ io.write
    THEN [p \in {q \in DOMAIN FS : q.dir # folder} |-> FS[p]]
    ELSE FS

\* DELETE /projects/{project_id}: the rows are deleted and committed first
\* (a surviving step that references one of the project's fixtures is a
\* foreign key error); the folder is removed afterwards, best effort.
delete_project(project_id, io) ==
    IF project_id \notin DOMAIN projects
    THEN Rejected(Response("delete_project", FALSE, io))
    ELSE IF \E i \in StepsOutside(project_id) :
               steps[i].referenced_fixture_id \in FixturesOf(project_id)
    THEN Rejected([Response("delete_project", FALSE, io) EXCEPT !.pr = {project_id}])
    ELSE /\ projects' = Delete(projects, project_id)
         /\ test_cases' = [t \in DOMAIN test_cases \ TestCasesOf(project_id)
                              |-> test_cases[t]]
         /\ fixtures' = [f \in DOMAIN fixtures \ FixturesOf(project_id) |-> fixtures[f]]
         /\ steps' = [i \in StepsOutside(project_id) |-> steps[i]]
         /\ test_case_fixtures' =
                {r \in test_case_fixtures :
                    /\ r.test_case_id \notin TestCasesOf(project_id)
                    /\ r.fixture_id \notin FixturesOf(project_id)}
         /\ dirs' = RemoveFolder(dirs, clean_folder_name(projects[project_id].name), io)
         /\ files' = RemoveFiles(dirs, files,
                                 clean_folder_name(projects[project_id].name), io)
         /\ pages' = [g \in {h \in DOMAIN pages : pages[h].project_id # project_id}
                         |-> pages[g]]
         /\ page_locators' =
                [l \in {k \in DOMAIN page_locators :
                            pages[page_locators[k].page_id].project_id # project_id}
                    |-> page_locators[l]]
         /\ project_settings' = {r \in project_settings : r.project_id # project_id}
         /\ UNCHANGED in_flight
         /\ resp' = [Response("delete_project", TRUE, io) EXCEPT !.pr = {project_id}]

\* ------------------------------------------------- services/page_generator.py
PageIds == {"g1", "g2"}
LocatorIds == {"l1", "l2"}

\* _to_camel_case: every character outside [a-zA-Z0-9\s] is dropped, the
\* first word is lower-cased and the others are capitalised; no word, no
\* name.
_to_camel_case(text) ==
    IF Split(SelectSeq(text, NotSpecial)) = <<>> THEN <<>>
    ELSE Lower(Head(Split(SelectSeq(text, NotSpecial))))
             \o CamelTail(Tail(Split(SelectSeq(text, NotSpecial))))

\* The pages of a project and the locators of a page, in the order of a
\* query without ORDER BY.
PagesOfProject(PG, project_id) ==
    RowsOf({g \in DOMAIN PG : PG[g].project_id = project_id})

LocatorsOfPage(L, page_id) == RowsOf({l \in DOMAIN L : L[l].page_id = page_id})

\* lines 37-43: the lines of one page, a comment and one property for each
\* locator; a page without locators gives no line.
page_locator_lines(PG, L, page_id) ==
    IF LocatorsOfPage(L, page_id) = <<>> THEN <<>>
    ELSE <<[t |-> "comment", page |-> PG[page_id].name]>>
         \o [k \in 1..Len(LocatorsOfPage(L, page_id)) |->
                [t |-> "readonly",
                 page |-> _to_camel_case(PG[page_id].name),
                 key |-> _to_camel_case(L[LocatorsOfPage(L, page_id)[k]].locator_key),
                 value |-> L[LocatorsOfPage(L, page_id)[k]].locator_value]]

\* lines 30-44: the block that replaces {{content}} in the template.
content_block(PG, L, project_id) ==
    Concat([k \in 1..Len(PagesOfProject(PG, project_id)) |->
               page_locator_lines(PG, L, PagesOfProject(PG, project_id)[k])])

\* The aggregate file of the project folder project_path.
AllPagePath(project_path) == Path(project_path, "pages", <<"AllPage.ts">>)

\* PageGenerator.generate_page_object: [success, files].  A project without
\* pages returns False before anything is written (lines 27-28); otherwise
\* the template with the block in it replaces the file.
generate_page_object(P, PG, L, FS, project_id, project_path, io) ==
    IF project_id \notin DOMAIN P \/ PagesOfProject(PG, project_id) = <<>>
           \/ ~io.gen \/ ~io.write
    THEN [success |-> FALSE, files |-> FS]
    ELSE [success |-> TRUE,
          files |-> write_file(FS, AllPagePath(project_path),
                               [kind |-> "page_object",
                                text |-> content_block(PG, L, project_id)])]

\* ------------------------------------------------------------- crud/page.py
\* A relative path names a folder under the working directory of the server.
UnderWorkingDirectory(path) == Relative \o path

\* str(playwright_manager.get_project_path(path)): the project folder, or
\* the string "None", a relative path, when the folder does not exist.
abs_path(D, playwright_project_path) ==
    IF get_project_path(D, playwright_project_path) # NoDir
    THEN get_project_path(D, playwright_project_path)
    ELSE UnderWorkingDirectory(<<"None">>)

\* The regeneration that create_page, update_page, delete_page,
\* create_page_locator and update_page_locator end with: only for a project
\* whose playwright_project_path is set (neither NULL nor empty, both
\* NoName), best effort.
page_object_after(P, D, PG, L, FS, project_id, io) ==
    IF project_id \in DOMAIN P /\ P[project_id].playwright_project_path # NoName
    THEN generate_page_object(P, PG, L, FS, project_id,
                              abs_path(D, P[project_id].playwright_project_path), io).files
    ELSE FS

\* delete_page_locator, lines 209-213: the stored folder name itself is
\* handed to the generator as the project path, a relative path.
page_object_after_delete_locator(P, PG, L, FS, project_id, io) ==
    IF project_id \in DOMAIN P /\ P[project_id].playwright_project_path # NoName
    THEN generate_page_object(P, PG, L, FS, project_id,
             UnderWorkingDirectory(P[project_id].playwright_project_path), io).files
    ELSE FS

NewPageId(PG) == CHOOSE g \in PageIds \ DOMAIN PG : TRUE
NewLocatorId(L) == CHOOSE l \in LocatorIds \ DOMAIN L : TRUE

\* The fields a client sent (exclude_unset) set on a row.
SetFields(row, update) ==
    [f \in DOMAIN row |-> IF f \in DOMAIN update THEN update[f] ELSE row[f]]

\* The tables and the files after a page handler, with its answer.
PagesDone(op, project_id, PG, L, FS, io) ==
    /\ pages' = PG
    /\ page_locators' = L
    /\ files' = FS
    /\ resp' = [Response(op, TRUE, io) EXCEPT !.pr = {project_id}]
    /\ UNCHANGED <<projects, dirs, fixtures, test_cases, steps, test_case_fixtures,
                   project_settings, in_flight>>

\* POST /pages/
create_page(page, io) ==
    IF page.project_id \notin DOMAIN projects
    THEN Rejected(Response("create_page", FALSE, io))
    ELSE /\ DOMAIN pages # PageIds
         /\ PagesDone("create_page", page.project_id,
                Insert(pages, NewPageId(pages), page), page_locators,
                page_object_after(projects, dirs,
                    Insert(pages, NewPageId(pages), page), page_locators, files,
                    page.project_id, io),
                io)

\* PUT /pages/{page_id}
update_page(page_id, page, io) ==
    IF page_id \notin DOMAIN pages
    THEN Rejected(Response("update_page", FALSE, io))
    ELSE PagesDone("update_page", pages[page_id].project_id,
             [pages EXCEPT ![page_id] = SetFields(pages[page_id], page)], page_locators,
             page_object_after(projects, dirs,
                 [pages EXCEPT ![page_id] = SetFields(pages[page_id], page)],
                 page_locators, files, pages[page_id].project_id, io),
             io)

\* The locators that are left when a page goes (cascade).
LocatorsLeft(L, page_id) == [l \in {k \in DOMAIN L : L[k].page_id # page_id} |-> L[l]]

\* DELETE /pages/{page_id}
delete_page(page_id, io) ==
    IF page_id \notin DOMAIN pages
    THEN Rejected(Response("delete_page", FALSE, io))
    ELSE PagesDone("delete_page", pages[page_id].project_id,
             Delete(pages, page_id), LocatorsLeft(page_locators, page_id),
             page_object_after(projects, dirs, Delete(pages, page_id),
                 LocatorsLeft(page_locators, page_id), files,
                 pages[page_id].project_id, io),
             io)

\* POST /pages/{page_id}/locators
create_page_locator(page_id, locator, io) ==
    IF page_id \notin DOMAIN pages
    THEN Rejected(Response("create_page_locator", FALSE, io))
    ELSE /\ DOMAIN page_locators # LocatorIds
         /\ PagesDone("create_page_locator", pages[page_id].project_id, pages,
                Insert(page_locators, NewLocatorId(page_locators),
                       [page_id |-> page_id, locator_key |-> locator.locator_key,
                        locator_value |-> locator.locator_value]),
                page_object_after(projects, dirs, pages,
                    Insert(page_locators, NewLocatorId(page_locators),
                           [page_id |-> page_id, locator_key |-> locator.locator_key,
                            locator_value |-> locator.locator_value]),
                    files, pages[page_id].project_id, io),
                io)

\* PUT /pages/{page_id}/locators/{locator_id}: the page named in the URL has
\* to exist; the locator is found by its own id.
update_page_locator(page_id, locator_id, locator, io) ==
    IF page_id \notin DOMAIN pages \/ locator_id \notin DOMAIN page_locators
    THEN Rejected(Response("update_page_locator", FALSE, io))
    ELSE PagesDone("update_page_locator",
             pages[page_locators[locator_id].page_id].project_id, pages,
             [page_locators EXCEPT ![locator_id] =
                 SetFields(page_locators[locator_id], locator)],
             page_object_after(projects, dirs, pages,
                 [page_locators EXCEPT ![locator_id] =
                     SetFields(page_locators[locator_id], locator)],
                 files, pages[page_locators[locator_id].page_id].project_id, io),
             io)

\* DELETE /pages/{page_id}/locators/{locator_id}
delete_page_locator(page_id, locator_id, io) ==
    IF page_id \notin DOMAIN pages \/ locator_id \notin DOMAIN page_locators
    THEN Rejected(Response("delete_page_locator", FALSE, io))
    ELSE PagesDone("delete_page_locator",
             pages[page_locators[locator_id].page_id].project_id, pages,
             Delete(page_locators, locator_id),
             page_object_after_delete_locator(projects, pages,
                 Delete(page_locators, locator_id), files,
                 pages[page_locators[locator_id].page_id].project_id, io),
             io)

\* ---------------------------------------------------- crud/project_setting.py
\* The keys whose change regenerates playwright.config.ts, and those whose
\* value is sent in seconds and stored in milliseconds.
ConfigKeys ==
    {"BASE_URL", "TIMEOUT", "EXPECT_TIMEOUT", "RETRIES", "WORKERS", "VIEWPORT_WIDTH",
     "VIEWPORT_HEIGHT", "FULLY_PARALLEL", "HEADLESS_MODE", "SCREENSHOT", "VIDEO"}
TimeoutKeys == {"TIMEOUT", "EXPECT_TIMEOUT"}

\* upsert_setting, lines 90-100: a numeric value, which is all the model
\* sends, of a timeout key is multiplied by 1000.
processed_value(key, value) == IF key \in TimeoutKeys THEN value * 1000 ELSE value

\* get_setting_by_key
get_setting_by_key(PS, project_id, key) ==
    {r \in PS : r.project_id = project_id /\ r.key = key}

\* lines 164-166: the settings of a project as a dictionary.
settings_dict(PS, project_id) ==
    [k \in {r.key : r \in {q \in PS : q.project_id = project_id}} |->
        (CHOOSE r \in PS : r.project_id = project_id /\ r.key = k).value]

\* lines 176-181: the template with the placeholder of every setting
\* replaced by the setting's value.
config_content(PS, project_id) ==
    [kind |-> "config", settings |-> settings_dict(PS, project_id)]

ConfigPath(folder) == Path(folder, "", <<"playwright.config.ts">>)
\* config_file_path.with_suffix('.ts.backup')
BackupPath(folder) == Path(folder, "", <<"playwright.config.ts.backup">>)

\* Whether _regenerate_playwright_config gets as far as the destination:
\* the project exists and the template is found.
ReachesConfig(P, project_id, io) == project_id \in DOMAIN P /\ io.gen

\* A regeneration that overwrites the config file where it is.
regenerate_playwright_config_NoBackup(P, PS, D, FS, project_id, io) ==
    IF ~ReachesConfig(P, project_id, io) THEN [dirs |-> D, files |-> FS]
    ELSE IF ~io.write THEN [dirs |-> D, files |-> FS]
    ELSE [dirs |-> D \cup {clean_folder_name(P[project_id].name)},
          files |-> write_file(FS, ConfigPath(clean_folder_name(P[project_id].name)),
                               config_content(PS, project_id))]

\* lines 196-200: an existing config file is renamed to the backup name,
\* which replaces a backup that is there.
BackedUp(FS, folder) ==
    IF ConfigPath(folder) \in DOMAIN FS
    THEN rename_file(FS, ConfigPath(folder), BackupPath(folder))
    ELSE FS

\* _regenerate_playwright_config: [dirs, files].  The existing file is
\* backed up, the folder is made when it is missing and the new content is
\* written; a write that fails comes after the rename.  Every failure is
\* logged and nothing more.
regenerate_playwright_config(P, PS, D, FS, project_id, io) ==
    IF ~ReachesConfig(P, project_id, io) THEN [dirs |-> D, files |-> FS]
    ELSE IF ~io.write
    THEN [dirs |-> D, files |-> BackedUp(FS, clean_folder_name(P[project_id].name))]
    ELSE [dirs |-> D \cup {clean_folder_name(P[project_id].name)},
          files |-> write_file(BackedUp(FS, clean_folder_name(P[project_id].name)),
                               ConfigPath(clean_folder_name(P[project_id].name)),
                               config_content(PS, project_id))]

\* upsert_setting: the row of the key is updated or inserted.
upsert_setting(PS, project_id, key, value) ==
    (PS \ get_setting_by_key(PS, project_id, key))
        \cup {[project_id |-> project_id, key |-> key,
               value |-> processed_value(key, value)]}

\* The tables and the files after a settings handler, with its answer.
SettingsDone(op, project_id, PS, result, regen, io) ==
    /\ project_settings' = PS
    /\ dirs' = result.dirs
    /\ files' = result.files
    /\ resp' = [Response(op, TRUE, io) EXCEPT !.pr = {project_id}, !.regen_config = regen]
    /\ UNCHANGED <<projects, fixtures, test_cases, steps, test_case_fixtures,
                   pages, page_locators, in_flight>>

\* PUT /projects/{project_id}/settings/{key}: the config is regenerated
\* when the key is one of the config keys.
upsert_project_setting(project_id, key, value, io) ==
    IF project_id \notin DOMAIN projects
    THEN Rejected(Response("upsert_project_setting", FALSE, io))
    ELSE SettingsDone("upsert_project_setting", project_id,
             upsert_setting(project_settings, project_id, key, value),
             IF key \in ConfigKeys
             THEN regenerate_playwright_config(projects,
                      upsert_setting(project_settings, project_id, key, value),
                      dirs, files, project_id, io)
             ELSE [dirs |-> dirs, files |-> files],
             key \in ConfigKeys /\ ReachesConfig(projects, project_id, io),
             io)

\* DELETE /projects/{project_id}/settings/{key}: the row goes; the config
\* is left as it is.
delete_project_setting_by_key(project_id, key, io) ==
    IF project_id \notin DOMAIN projects
           \/ get_setting_by_key(project_settings, project_id, key) = {}
    THEN Rejected(Response("delete_project_setting_by_key", FALSE, io))
    ELSE SettingsDone("delete_project_setting_by_key", project_id,
             project_settings \ get_setting_by_key(project_settings, project_id, key),
             [dirs |-> dirs, files |-> files], FALSE, io)

\* POST /projects/{project_id}/regenerate-config
regenerate_config(project_id, io) ==
    IF project_id \notin DOMAIN projects
    THEN Rejected(Response("regenerate_config", FALSE, io))
    ELSE SettingsDone("regenerate_config", project_id, project_settings,
             regenerate_playwright_config(projects, project_settings, dirs, files,
                                          project_id, io),
             ReachesConfig(projects, project_id, io), io)

\* ------------------------------- api/endpoints/test_cases.py, worker threads
\* POST /test-cases/{test_case_id}/generate-and-save is a plain `def`
\* endpoint: the server runs it in a worker thread, side by side with other
\* requests.  It is modelled in the steps at which another thread can come
\* between: the generation from the tables, the open(target, 'w') that
\* truncates the file, and the write through the descriptor that open
\* returned, which starts at offset 0 whatever the file holds by then.

\* A file that was truncated and not written yet.
EmptyFile == [kind |-> "empty"]

\* The length of a file's text: a generated test grows with every step
\* block; a text written over the start of a longer one keeps its length.
RECURSIVE Size(_)
Size(content) ==
    CASE content.kind = "empty" -> 0
      [] content.kind = "spec" -> 1 + Len(content.body)
      [] content.kind = "mixture" -> Size(content.tail)
      [] OTHER -> 1

\* write() at offset 0 of a file that holds `existing`: what lies behind the
\* written text stays.
write_at_start(existing, content) ==
    IF Size(content) >= Size(existing) THEN content
    ELSE [kind |-> "mixture", head |-> content, tail |-> existing]

\* The request is received by thread r: the script is generated from the
\* tables as they are (lines 627-639) and the target is determined
\* (save_test_case_to_project, lines 541-556).
begin_generate_and_save(r, test_case_id, project_name, io) ==
    /\ in_flight[r] = Idle
    /\ IF test_case_id \notin DOMAIN test_cases
          \/ ~generate_test_case(steps, fixtures, test_cases, test_case_fixtures,
                                 test_case_id, io).success
          \/ get_project_path(dirs, project_name) = NoDir
       THEN Rejected(Response("generate_and_save_test_case_script", FALSE, io))
       ELSE /\ in_flight' =
                  [in_flight EXCEPT ![r] =
                      [pc |-> "generated", tc |-> test_case_id,
                       content |-> generate_test_case(steps, fixtures, test_cases,
                                       test_case_fixtures, test_case_id, io).content,
                       path |-> Path(get_project_path(dirs, project_name), "tests",
                                     generate_test_case(steps, fixtures, test_cases,
                                         test_case_fixtures, test_case_id, io).filename)]]
            /\ UNCHANGED <<projects, dirs, fixtures, test_cases, steps, test_case_fixtures,
                           files, pages, page_locators, project_settings, resp>>

\* open(target_file_path, 'w'), lines 577, 583, 590, 596: the file is
\* truncated.
open_target(r) ==
    /\ in_flight[r].pc = "generated"
    /\ files' = write_file(files, in_flight[r].path, EmptyFile)
    /\ in_flight' = [in_flight EXCEPT ![r].pc = "opened"]
    /\ UNCHANGED <<projects, dirs, fixtures, test_cases, steps, test_case_fixtures,
                   pages, page_locators, project_settings, resp>>

\* f.write(content) and the close that flushes it; the request is answered
\* with success (lines 650-657).
write_target(r, io) ==
    /\ in_flight[r].pc = "opened"
    /\ files' = write_file(files, in_flight[r].path,
                           write_at_start(files[in_flight[r].path], in_flight[r].content))
    /\ in_flight' = [in_flight EXCEPT ![r] = Idle]
    /\ resp' = [Response("generate_and_save_test_case_script", TRUE, io)
                   EXCEPT !.tc = {in_flight[r].tc}, !.content = in_flight[r].content]
    /\ UNCHANGED <<projects, dirs, fixtures, test_cases, steps, test_case_fixtures,
                   pages, page_locators, project_settings>>

\* ============================================================== SpecSteps
\* The step handlers and the fixture update, on one test case of a project
\* whose Playwright folder was never scaffolded (create_project tolerates
\* that), so that every regeneration ends at the missing folder.
EmptyTable == [i \in {} |-> NoScript]

ProjectRow(name) == [name |-> name, playwright_project_path |-> NoName]

FixtureRow(project_id, name, type) ==
    [project_id |-> project_id, name |-> name, type |-> type,
     playwright_script |-> NoScript, filename |-> NoName, export_name |-> NoName,
     fixture_file_path |-> NoPath]

TestCaseRow(project_id, name) ==
    [project_id |-> project_id, name |-> name,
     playwright_script |-> NoScript, test_file_path |-> NoPath]

\* The environment in which generation, formatting and writing all work.
IoOk(glob) == [gen |-> TRUE, write |-> TRUE, formatted |-> TRUE, glob |-> glob]

InitSteps ==
    /\ projects = [p \in {"p1"} |-> ProjectRow(<<"a">>)]
    /\ dirs = {}
    /\ fixtures = [f \in {"f1"} |-> FixtureRow("p1", <<"a">>, "extend")]
    /\ test_cases = [t \in {"t1"} |-> TestCaseRow("p1", <<"t">>)]
    /\ steps = EmptyTable
    /\ test_case_fixtures = {}
    /\ files = EmptyTable
    /\ pages = EmptyTable
    /\ page_locators = EmptyTable
    /\ project_settings = {}
    /\ in_flight = NoRequests
    /\ resp = Response("init", TRUE, IoOk(<<>>))

\* The step bodies clients send: every order, bound to no fixture, to an
\* existing fixture or to a fixture that does not exist.
StepBodies(test_case_ids, fixture_ids) ==
    [test_case_id : test_case_ids, action : {<<"x">>}, expected : {""},
     playwright_script : {""}, order : Orders, disabled : {FALSE},
     referenced_fixture_id : fixture_ids]

\* The step updates clients send: the order, the fixture, or both.
StepUpdates(fixture_ids) ==
    {[set |-> {"order"}, order |-> o, referenced_fixture_id |-> None, action |-> <<>>] :
        o \in Orders}
    \cup {[set |-> {"referenced_fixture_id"}, order |-> 1,
           referenced_fixture_id |-> f, action |-> <<>>] : f \in fixture_ids}
    \cup {[set |-> {"order", "referenced_fixture_id"}, order |-> o,
           referenced_fixture_id |-> f, action |-> <<>>] :
              o \in Orders, f \in fixture_ids \ {None}}

\* The fixture updates that change the type.
FixtureTypeUpdates ==
    {[set |-> {"type"}, name |-> <<>>, type |-> ty, playwright_script |-> NoScript] :
        ty \in {"extend", "inline"}}

\* f1 is the fixture that exists; no row has the id f3.
NextSteps ==
    \/ \E b \in StepBodies({None}, {None, "f1", "f3"}) :
          create_test_case_step("t1", b, IoOk(<<>>))
    \/ \E b \in StepBodies({None}, {None}), f \in {"f1", "f3"} :
          create_fixture_step(f, b, IoOk(<<>>))
    \/ \E b \in StepBodies({"t1"}, {None, "f1", "f3"}) : create_step(b, IoOk(<<>>))
    \/ \E i \in StepIds, u \in StepUpdates({None, "f1", "f3"}) :
          update_step(i, u, IoOk(<<>>))
    \/ \E i \in StepIds : delete_step(i, IoOk(<<>>))
    \/ \E i \in StepIds, o \in Orders : reorder_test_case_steps("t1", i, o)
    \/ auto_reorder_test_case_steps("t1")
    \/ \E u \in FixtureTypeUpdates : update_fixture("f1", u, IoOk(<<>>))

SpecSteps == InitSteps /\ [][NextSteps]_vars

\* ------------------------------------------------------ claims on SpecSteps
\* C1: in every state reachable through step create, update, delete,
\* reorder, auto-reorder and fixture update, every stored step that
\* references a fixture of type extend has order 1, and every stored step
\* that references a fixture of type inline has an order other than 1.
C1_BoundStepsKeepTheRule ==
    \A i \in DOMAIN steps :
        steps[i].referenced_fixture_id \in DOMAIN fixtures =>
            /\ fixtures[steps[i].referenced_fixture_id].type = "extend"
                  => steps[i].order = 1
            /\ fixtures[steps[i].referenced_fixture_id].type = "inline"
                  => steps[i].order # 1

\* The handlers that call crud.create_step.
CreateOps == {"create_test_case_step", "create_fixture_step", "create_step"}

\* A fixture id and an order that the fixture call rules forbid together.
ViolatesRule(F, fixture_id, order) ==
    \/ fixture_id \notin DOMAIN F
    \/ F[fixture_id].type = "extend" /\ order # 1
    \/ F[fixture_id].type = "inline" /\ order = 1

\* C2: create_step called with a referenced fixture id fails, and persists
\* no step row, whenever the fixture does not exist, or it is of type extend
\* and the requested order is not 1, or it is of type inline and the
\* requested order is 1.
C2_ViolatingCreateFails ==
    [][(/\ resp'.op \in CreateOps
        /\ resp'.ref # None
        /\ ViolatesRule(fixtures, resp'.ref, resp'.order[1]))
         => (~resp'.ok /\ steps' = steps)]_vars

\* A creation that names an inline fixture at order 1 was refused.
C2_InlineAtOrderOneRefused ==
    /\ resp.op \in CreateOps
    /\ resp.ref \in DOMAIN fixtures
    /\ fixtures[resp.ref].type = "inline"
    /\ resp.order = <<1>>
    /\ ~resp.ok

\* C3: in every state reachable through step create, delete, reorder and
\* auto-reorder, the orders of the steps of one test case are exactly the
\* values 1..N, N the number of those steps, none repeated, none missing.
C3_StepOrdersDense ==
    \A t \in DOMAIN test_cases :
        {steps[i].order : i \in {j \in DOMAIN steps : steps[j].test_case_id = t}}
            = 1..Cardinality({j \in DOMAIN steps : steps[j].test_case_id = t})

\* C11: every update_step call that would leave the step bound to an extend
\* fixture at an order other than 1, to an inline fixture at order 1, or to a
\* fixture that does not exist, fails and leaves the stored step unchanged:
\* an update that is answered with success leaves no such step behind, and
\* an update that fails changes no step.
C11_ViolatingUpdateFails ==
    [][resp'.op = "update_step" =>
          /\ resp'.ok =>
                \A i \in resp'.st \cap DOMAIN steps' :
                    steps'[i].referenced_fixture_id # None =>
                        ~ViolatesRule(fixtures, steps'[i].referenced_fixture_id,
                                      steps'[i].order)
          /\ ~resp'.ok => steps' = steps]_vars

\* C25: in every reachable state the fixture type cached on a step equals
\* the current type of the fixture that the step references, also after the
\* fixture's type was changed by a fixture update.
C25_CachedTypeIsCurrent ==
    \A i \in DOMAIN steps :
        steps[i].referenced_fixture_id \in DOMAIN fixtures =>
            steps[i].referenced_fixture_type
                = fixtures[steps[i].referenced_fixture_id].type

\* ================================================================ SpecGen
\* The handlers that generate files, on two projects whose Playwright
\* folders were scaffolded.  The folders are listed by glob in an order the
\* file system chooses.
FolderA == clean_folder_name(<<"a">>)
FolderB == clean_folder_name(<<"b">>)

IoGen == {IoOk(<<FolderA, FolderB>>), IoOk(<<FolderB, FolderA>>)}

InitGen ==
    /\ projects = [p \in {"p1", "p2"} |-> ProjectRow(IF p = "p1" THEN <<"a">> ELSE <<"b">>)]
    /\ dirs = {FolderA, FolderB}
    /\ fixtures = EmptyTable
    /\ test_cases = EmptyTable
    /\ steps = EmptyTable
    /\ test_case_fixtures = {}
    /\ files = EmptyTable
    /\ pages = EmptyTable
    /\ page_locators = EmptyTable
    /\ project_settings = {}
    /\ in_flight = NoRequests
    /\ resp = Response("init", TRUE, IoOk(<<>>))

\* The test case bodies and updates clients send.
TestCaseBodies(project_ids, names) ==
    [project_id : project_ids, name : names, playwright_script : {NoScript}]

TestCaseRenames(names) ==
    {[set |-> {"name"}, name |-> n, playwright_script |-> NoScript] : n \in names}

\* The fixture bodies and updates clients send.
FixtureBodies(project_ids, names, types, scripts) ==
    [project_id : project_ids, name : names, type : types, playwright_script : scripts]

FixtureScriptUpdates(scripts) ==
    {[set |-> {"playwright_script"}, name |-> <<>>, type |-> "extend",
      playwright_script |-> s] : s \in scripts}

\* The fixture updates that change the name alone.
FixtureRenames(names) ==
    {[set |-> {"name"}, name |-> n, type |-> "extend", playwright_script |-> NoScript] :
        n \in names}

NextGen ==
    \/ \E tc \in TestCaseBodies({"p1", "p2"}, {<<"t">>}), io \in IoGen :
          TestCasesOf(tc.project_id) = {} /\ create_test_case(tc, io)
    \/ \E t \in TestCaseIds, u \in TestCaseRenames({<<"t">>, <<"u">>}), io \in IoGen :
          update_test_case(t, u, io)
    \/ \E t \in TestCaseIds : delete_test_case(t)
    \/ \E t \in TestCaseIds, b \in StepBodies({None}, {None}), io \in IoGen :
          steps = EmptyTable /\ create_test_case_step(t, b, io)
    \/ \E b \in StepBodies(TestCaseIds, {None}), io \in IoGen :
          steps = EmptyTable /\ create_step(b, io)
    \/ \E i \in StepIds, u \in StepUpdates({None}), io \in IoGen : update_step(i, u, io)
    \/ \E i \in StepIds, io \in IoGen : delete_step(i, io)

SpecGen == InitGen /\ [][NextGen]_vars

InitFixtureGen ==
    /\ projects = [p \in {"p1"} |-> ProjectRow(<<"a">>)]
    /\ dirs = {FolderA}
    /\ fixtures = EmptyTable
    /\ test_cases = EmptyTable
    /\ steps = EmptyTable
    /\ test_case_fixtures = {}
    /\ files = EmptyTable
    /\ pages = EmptyTable
    /\ page_locators = EmptyTable
    /\ project_settings = {}
    /\ in_flight = NoRequests
    /\ resp = Response("init", TRUE, IoOk(<<>>))

NextFixtureGen ==
    \/ \E fx \in FixtureBodies({"p1"}, {<<"a">>}, {"inline"}, {NoScript, RawScript("x")}) :
          DOMAIN fixtures = {} /\ create_fixture(fx, IoOk(<<FolderA>>))
    \/ \E f \in FixtureIds, b \in StepBodies({None}, {None}) :
          create_fixture_step(f, b, IoOk(<<FolderA>>))
    \/ \E f \in FixtureIds, u \in FixtureScriptUpdates({RawScript("y")}) :
          update_fixture(f, u, IoOk(<<FolderA>>))
    \/ \E i \in StepIds, u \in StepUpdates({None}) : update_step(i, u, IoOk(<<FolderA>>))
    \/ \E i \in StepIds : delete_step(i, IoOk(<<FolderA>>))
    \/ \E f \in FixtureIds : delete_fixture(f, IoOk(<<FolderA>>))

SpecFixtureGen == InitFixtureGen /\ [][NextFixtureGen]_vars

\* ----------------------------------- claims on SpecGen and SpecFixtureGen
\* The place of a test case's generated file: the tests folder of its
\* project's folder, under the file name derived from its name.
TestFilePath(P, TC, t) ==
    Path(clean_folder_name(P[TC[t].project_id].name), "tests", TestFileName(TC[t].name))

\* The place of a fixture's generated file.
FixtureFilePath(P, F, f) ==
    Path(clean_folder_name(P[F[f].project_id].name), "fixtures",
         FixtureFileName(_clean_export_name(F[f].name)))

\* An update that renamed test case t, whose generated file existed, and
\* whose regeneration succeeded.
RenamedAndRegenerated(t) ==
    /\ resp'.op = "update_test_case" /\ resp'.ok /\ resp'.regen_tc
    /\ t \in resp'.tc /\ t \in DOMAIN test_cases /\ t \in DOMAIN test_cases'
    /\ TestFilePath(projects, test_cases, t) \in DOMAIN files
    /\ TestFilePath(projects, test_cases', t) # TestFilePath(projects, test_cases, t)
    /\ \A o \in DOMAIN test_cases' \ {t} :
          TestFilePath(projects, test_cases', o) # TestFilePath(projects, test_cases, t)
    /\ steps' = steps

\* C4: when a test case whose generated file exists is renamed and
\* regenerated with its steps unchanged, afterwards a file exists at the
\* path derived from the new name and no file of that test case remains at
\* the old path.
C4_RenameRelocatesFile ==
    [][\A t \in TestCaseIds :
          RenamedAndRegenerated(t) =>
              /\ TestFilePath(projects, test_cases', t) \in DOMAIN files'
              /\ TestFilePath(projects, test_cases, t) \notin DOMAIN files']_vars

\* C5: after every successful regeneration of a test case, the script
\* column of the test case equals the content of the file that was just
\* written for that test case.
C5_ScriptIsTheWrittenFile ==
    \A t \in resp.tc \cap DOMAIN test_cases :
        resp.regen_tc =>
            /\ TestFilePath(projects, test_cases, t) \in DOMAIN files
            /\ test_cases[t].playwright_script
                   = files[TestFilePath(projects, test_cases, t)]

\* The handlers that call regenerate_fixture_with_steps.
FixtureRegenerators == {"create_fixture_step", "update_step", "delete_step"}

\* C6: after regenerate_fixture_with_steps succeeds for a fixture, the
\* script column of the fixture equals the content of the fixture file the
\* regeneration wrote.
C6_FixtureScriptIsTheWrittenFile ==
    \A f \in resp.fx \cap DOMAIN fixtures :
        (resp.op \in FixtureRegenerators /\ resp.regen_fx) =>
            /\ FixtureFilePath(projects, fixtures, f) \in DOMAIN files
            /\ fixtures[f].playwright_script
                   = files[FixtureFilePath(projects, fixtures, f)]

\* The fixture handlers alone, with updates of the name and of the script,
\* on the project of InitFixtureGen.
NextFixtureNames ==
    \/ \E fx \in FixtureBodies({"p1"}, {<<"a">>, <<"b">>}, {"extend", "inline"},
                                {NoScript, RawScript("x")}) :
          DOMAIN fixtures = {} /\ create_fixture(fx, IoOk(<<FolderA>>))
    \/ \E f \in FixtureIds,
          u \in FixtureRenames({<<"a">>, <<"b">>})
                   \cup FixtureScriptUpdates({RawScript("y")}) :
          update_fixture(f, u, IoOk(<<FolderA>>))
    \/ \E f \in FixtureIds : delete_fixture(f, IoOk(<<FolderA>>))

SpecFixtureNames == InitFixtureGen /\ [][NextFixtureNames]_vars

\* C14: in every reachable state in which a fixture has a stored export
\* name, that export name is the export-name normalisation of the fixture's
\* current name, after fixture updates that change the name as well.
C14_ExportNameFollowsTheName ==
    \A f \in DOMAIN fixtures :
        fixtures[f].export_name # NoName
            => fixtures[f].export_name = _clean_export_name(fixtures[f].name)

\* C20: creating a fixture with a script, or updating a fixture's script,
\* stores and returns the playwright_script exactly as the request
\* submitted it.
C20_ScriptStoredAsSubmitted ==
    (resp.op \in {"create_fixture", "update_fixture"} /\ resp.ok /\ resp.script # NoScript)
        => \A f \in resp.fx : /\ f \in DOMAIN fixtures
                               /\ fixtures[f].playwright_script = resp.script

\* The handlers that create, update or delete a step, a fixture or a test
\* case.
MutatingOps ==
    {"create_test_case_step", "create_fixture_step", "create_step", "update_step",
     "delete_step", "create_fixture", "update_fixture", "delete_fixture",
     "create_test_case", "update_test_case", "delete_test_case"}

\* The rendering of test case t, and of fixture f with its steps, from the
\* tables as they are.
RenderingOfTestCase(t) ==
    generate_test_case(steps, fixtures, test_cases, test_case_fixtures, t,
                       [gen |-> TRUE, formatted |-> resp.formatted]).content

RenderingOfFixture(f) ==
    generate_fixture(fixtures[f].name, fixtures[f].type,
                     fixture_content(fixtures[f].playwright_script),
                     projects[fixtures[f].project_id].name,
                     fixture_steps_data(steps, get_steps_by_fixture(steps, f)),
                     [gen |-> TRUE, formatted |-> resp.formatted]).content

\* C8: after every successful create, update or delete of a step, fixture
\* or test case in which generation does not fail, the generated file of
\* the affected test case or fixture is the rendering of the database state
\* that holds after the mutation.
C8_FilesFollowTheDatabase ==
    (resp.op \in MutatingOps /\ resp.ok /\ resp.gen /\ resp.write) =>
        /\ \A t \in resp.tc \cap DOMAIN test_cases :
              /\ TestFilePath(projects, test_cases, t) \in DOMAIN files
              /\ files[TestFilePath(projects, test_cases, t)] = RenderingOfTestCase(t)
        /\ \A f \in resp.fx \cap DOMAIN fixtures :
              /\ FixtureFilePath(projects, fixtures, f) \in DOMAIN files
              /\ files[FixtureFilePath(projects, fixtures, f)] = RenderingOfFixture(f)

\* =============================================================== SpecFail
\* Every handler that runs a generator, in an environment that makes the
\* template loading, the Prettier pass or the writing fail.  The requests
\* name rows that exist; there is at most one project, which holds one test
\* case with one step, or one fixture.
IoFailing ==
    {io \in [gen : BOOLEAN, write : BOOLEAN, formatted : BOOLEAN, glob : {<<FolderA>>}] :
        Cardinality({k \in {"gen", "write", "formatted"} : ~io[k]}) = 1}

InitFail ==
    /\ projects = EmptyTable
    /\ dirs = {}
    /\ fixtures = EmptyTable
    /\ test_cases = EmptyTable
    /\ steps = EmptyTable
    /\ test_case_fixtures = {}
    /\ files = EmptyTable
    /\ pages = EmptyTable
    /\ page_locators = EmptyTable
    /\ project_settings = {}
    /\ in_flight = NoRequests
    /\ resp = Response("init", TRUE, IoOk(<<>>))

\* The fixture updates that change the name and the script together.
FixtureRewrites(names, scripts) ==
    {[set |-> {"name", "playwright_script"}, name |-> n, type |-> "extend",
      playwright_script |-> s] : n \in names, s \in scripts}

NextFail ==
    \/ \E io \in IoFailing : DOMAIN projects = {} /\ create_project([name |-> <<"a">>], io)
    \/ \E p \in DOMAIN projects :
          dirs = {} /\ recreate_playwright_project(p, "exit_0", IoOk(<<FolderA>>))
    \/ \E p \in DOMAIN projects : update_project(p, [name |-> <<"b">>])
    \/ \E p \in DOMAIN projects, io \in IoFailing : delete_project(p, io)
    \/ \E tc \in TestCaseBodies(DOMAIN projects, {<<"t">>}), io \in IoFailing :
          DOMAIN test_cases = {} /\ DOMAIN fixtures = {} /\ create_test_case(tc, io)
    \/ \E t \in DOMAIN test_cases, u \in TestCaseRenames({<<"u">>}), io \in IoFailing :
          update_test_case(t, u, io)
    \/ \E t \in DOMAIN test_cases : delete_test_case(t)
    \/ \E t \in DOMAIN test_cases, b \in StepBodies({None}, {None}), io \in IoFailing :
          steps = EmptyTable /\ create_test_case_step(t, b, io)
    \/ \E i \in DOMAIN steps, u \in StepUpdates({None}), io \in IoFailing :
          update_step(i, u, io)
    \/ \E i \in DOMAIN steps, io \in IoFailing : delete_step(i, io)
    \/ \E fx \in FixtureBodies(DOMAIN projects, {<<"a">>}, {"extend"}, {NoScript}),
          io \in IoFailing :
          DOMAIN fixtures = {} /\ DOMAIN test_cases = {} /\ create_fixture(fx, io)
    \/ \E f \in DOMAIN fixtures,
          u \in FixtureRewrites({<<"b">>}, {RawScript("x")}), io \in IoFailing :
          update_fixture(f, u, io)
    \/ \E f \in DOMAIN fixtures, io \in IoFailing : delete_fixture(f, io)

SpecFail == InitFail /\ [][NextFail]_vars

\* ------------------------------------------------------- claims on SpecFail
\* The environment of the request made generation, formatting or writing
\* fail.
GenerationFailed(r) == ~r.gen \/ ~r.write \/ ~r.formatted

\* The handlers of SpecFail whose request the database accepts: the
\* deletion of a fixture or project that a surviving step references is a
\* foreign key error, whatever the generators do.
AcceptedByDatabase ==
    /\ resp'.op = "delete_fixture" =>
          ~\E i \in DOMAIN steps : steps[i].referenced_fixture_id \in resp'.fx
    /\ resp'.op = "delete_project" =>
          ~\E i \in DOMAIN steps, p \in resp'.pr :
               /\ steps[i].test_case_id \notin TestCasesOf(p)
               /\ steps[i].referenced_fixture_id \in FixturesOf(p)

\* The mutation the request asked for is in the tables afterwards.
MutationCommitted ==
    CASE resp'.op = "create_project" ->
           \E p \in resp'.pr : p \notin DOMAIN projects /\ p \in DOMAIN projects'
                                /\ projects'[p].name = resp'.name
      [] resp'.op = "update_project" ->
           \E p \in resp'.pr : p \in DOMAIN projects' /\ projects'[p].name = resp'.name
      [] resp'.op = "delete_project" ->
           \E p \in resp'.pr : p \in DOMAIN projects /\ p \notin DOMAIN projects'
      [] resp'.op = "create_test_case" ->
           \E t \in resp'.tc : t \notin DOMAIN test_cases /\ t \in DOMAIN test_cases'
                                /\ test_cases'[t].name = resp'.name
      [] resp'.op = "update_test_case" ->
           \E t \in resp'.tc : t \in DOMAIN test_cases' /\ test_cases'[t].name = resp'.name
      [] resp'.op = "delete_test_case" ->
           \E t \in resp'.tc : t \in DOMAIN test_cases /\ t \notin DOMAIN test_cases'
      [] resp'.op = "create_test_case_step" ->
           \E i \in resp'.st : i \notin DOMAIN steps /\ i \in DOMAIN steps'
                                /\ <<steps'[i].order>> = resp'.order
      [] resp'.op = "update_step" ->
           \E i \in resp'.st : i \in DOMAIN steps' /\ <<steps'[i].order>> = resp'.order
      [] resp'.op = "delete_step" ->
           \E i \in resp'.st : i \in DOMAIN steps /\ i \notin DOMAIN steps'
      [] resp'.op = "create_fixture" ->
           \E f \in resp'.fx : f \notin DOMAIN fixtures /\ f \in DOMAIN fixtures'
                                /\ fixtures'[f].name = resp'.name
      [] resp'.op = "update_fixture" ->
           \E f \in resp'.fx : f \in DOMAIN fixtures' /\ fixtures'[f].name = resp'.name
      [] resp'.op = "delete_fixture" ->
           \E f \in resp'.fx : f \in DOMAIN fixtures /\ f \notin DOMAIN fixtures'
      [] OTHER -> FALSE

\* C7: when generation, formatting or writing fails during a step, fixture,
\* test case or project create, update or delete, the handler still answers
\* with success and the mutation it made is committed.
C7_FailureKeepsTheMutation ==
    [][(GenerationFailed(resp') /\ AcceptedByDatabase)
          => (resp'.ok /\ MutationCommitted)]_vars

\* ============================================================= SpecRender
\* The generation endpoint, on one test case whose steps are bound to an
\* extend fixture (f1) and to an inline fixture (f2), with fixture
\* associations and fixture type updates.  The project's folder was never
\* scaffolded; the endpoint needs none.
InitRender ==
    /\ projects = [p \in {"p1"} |-> ProjectRow(<<"a">>)]
    /\ dirs = {}
    /\ fixtures = [f \in {"f1", "f2"} |->
                      IF f = "f1" THEN FixtureRow("p1", <<"a">>, "extend")
                      ELSE FixtureRow("p1", <<"b">>, "inline")]
    /\ test_cases = [t \in {"t1"} |-> TestCaseRow("p1", <<"t">>)]
    /\ steps = EmptyTable
    /\ test_case_fixtures = {}
    /\ files = EmptyTable
    /\ pages = EmptyTable
    /\ page_locators = EmptyTable
    /\ project_settings = {}
    /\ in_flight = NoRequests
    /\ resp = Response("init", TRUE, IoOk(<<>>))

NextRender ==
    \/ \E b \in StepBodies({None}, {None, "f1", "f2"}) :
          create_test_case_step("t1", b, IoOk(<<>>))
    \/ \E i \in StepIds : delete_step(i, IoOk(<<>>))
    \/ \E f \in {"f1", "f2"} : add_fixture_to_test_case("t1", f)
    \/ \E f \in {"f1", "f2"}, u \in FixtureTypeUpdates : update_fixture(f, u, IoOk(<<>>))
    \/ generate_test_case_script("t1", IoOk(<<>>))

SpecRender == InitRender /\ [][NextRender]_vars

\* ----------------------------------------------------- claims on SpecRender
\* The fixtures of a test case in the order the generator meets them: the
\* associated fixtures by association order, then the fixtures its steps
\* reference, by step order, each fixture once.
RECURSIVE Once(_, _)
Once(ids, seen) ==
    IF ids = <<>> THEN <<>>
    ELSE IF Head(ids) \in seen THEN Once(Tail(ids), seen)
    ELSE <<Head(ids)>> \o Once(Tail(ids), seen \cup {Head(ids)})

AssociatedIds(t) ==
    [k \in 1..Len(get_test_case_fixtures(fixtures, test_case_fixtures, t)) |->
        get_test_case_fixtures(fixtures, test_case_fixtures, t)[k].fixture_id]

ReferencedIds(t) ==
    [k \in 1..Len(get_steps_by_test_case(steps, t)) |->
        steps[get_steps_by_test_case(steps, t)[k]].referenced_fixture_id]

EncounterOrder(t) == Once(AssociatedIds(t) \o ReferencedIds(t), {None})

IsExtendNow(f) == fixtures[f].type = "extend"

ExtendExportNames(t) ==
    [k \in 1..Len(SelectSeq(EncounterOrder(t), IsExtendNow)) |->
        _clean_export_name(fixtures[SelectSeq(EncounterOrder(t), IsExtendNow)[k]].name)]

\* The generation endpoint answered with the content of test case t.
GeneratedFor(t) ==
    resp.op = "generate_test_case_script" /\ resp.ok /\ t \in resp.tc

\* C9: the parameter list of the generated test function is the page
\* parameter followed by the export names of exactly the fixtures whose type
\* is extend, in encounter order; an inline fixture never appears in it.
C9_ParamsAreTheExtendFixtures ==
    \A t \in DOMAIN test_cases :
        GeneratedFor(t) => resp.content.params = <<Str_page>> \o ExtendExportNames(t)

\* The rendered block of a step holds the awaited call of an export name.
HasCall(block, export_name) ==
    \E k \in 1..Len(block.lines) :
        block.lines[k].t = "call" /\ block.lines[k].v = export_name

\* C10: every step of a test case that is bound to an inline fixture is
\* rendered in the test body as the awaited call of the fixture's export
\* name.
C10_InlineStepIsACall ==
    \A t \in DOMAIN test_cases :
        GeneratedFor(t) =>
            \A k \in 1..Len(get_steps_by_test_case(steps, t)) :
                (/\ ReferencedIds(t)[k] \in DOMAIN fixtures
                 /\ fixtures[ReferencedIds(t)[k]].type = "inline")
                    => HasCall(resp.content.body[k],
                               _clean_export_name(fixtures[ReferencedIds(t)[k]].name))


\* ============================================================== SpecAssoc
\* The fixture association handlers, on one test case and three fixtures.
AssocOrders == 1..MaxFixtureOrder

InitAssoc ==
    /\ projects = [p \in {"p1"} |-> ProjectRow(<<"a">>)]
    /\ dirs = {}
    /\ fixtures = [f \in FixtureIds |-> FixtureRow("p1", <<"a">>, "inline")]
    /\ test_cases = [t \in {"t1"} |-> TestCaseRow("p1", <<"t">>)]
    /\ steps = EmptyTable
    /\ test_case_fixtures = {}
    /\ files = EmptyTable
    /\ pages = EmptyTable
    /\ page_locators = EmptyTable
    /\ project_settings = {}
    /\ in_flight = NoRequests
    /\ resp = Response("init", TRUE, IoOk(<<>>))

\* The lists a client sends to the reorder endpoint: one or two entries.
FixtureOrderLists ==
    {<<e>> : e \in [fixture_id : FixtureIds, order : AssocOrders]}
    \cup {<<e1, e2>> : e1 \in [fixture_id : {"f1"}, order : AssocOrders],
                       e2 \in [fixture_id : {"f2"}, order : AssocOrders]}

NextAssoc ==
    \/ \E f \in FixtureIds :
          /\ NextFixtureOrder(test_case_fixtures, "t1") <= MaxFixtureOrder
          /\ add_fixture_to_test_case("t1", f)
    \/ \E f \in FixtureIds : remove_fixture_from_test_case("t1", f)
    \/ \E f \in FixtureIds, o \in AssocOrders : update_fixture_order("t1", f, o)
    \/ \E l \in FixtureOrderLists : reorder_test_case_fixtures("t1", l)

SpecAssoc == InitAssoc /\ [][NextAssoc]_vars

\* ------------------------------------------------------ claims on SpecAssoc
\* C12: in every state reachable through add-fixture, remove-fixture,
\* update-fixture-order and reorder-fixtures, the orders of the fixture
\* associations of one test case are exactly the values 1..N, N the number
\* of those associations, none repeated, none missing.
C12_AssociationOrdersDense ==
    \A t \in DOMAIN test_cases :
        {r.order : r \in {q \in test_case_fixtures : q.test_case_id = t}}
            = 1..Cardinality({q \in test_case_fixtures : q.test_case_id = t})


\* ============================================================== SpecNames
\* Projects and fixtures created under every short name over an alphabet
\* that holds a lower-case and an upper-case letter, a digit, the three
\* separators the normalisers know and a character both of them drop.
Alphabet == {"a", "B", "1", " ", "-", "_", "!"}

Names == UNION {[1..k -> Alphabet] : k \in 0..MaxNameLen}

InitNames ==
    /\ projects = [p \in {"p1"} |-> ProjectRow(<<"a">>)]
    /\ dirs = {FolderA}
    /\ fixtures = EmptyTable
    /\ test_cases = EmptyTable
    /\ steps = EmptyTable
    /\ test_case_fixtures = {}
    /\ files = EmptyTable
    /\ pages = EmptyTable
    /\ page_locators = EmptyTable
    /\ project_settings = {}
    /\ in_flight = NoRequests
    /\ resp = Response("init", TRUE, IoOk(<<>>))

NextNames ==
    \/ \E n \in Names :
          DOMAIN fixtures = {} /\ create_project([name |-> n], IoOk(<<FolderA>>))
    \/ \E p \in DOMAIN projects :
          DOMAIN fixtures = {} /\ recreate_playwright_project(p, "exit_0", IoOk(<<FolderA>>))
    \/ \E fx \in FixtureBodies({"p1"}, Names, {"inline"}, {NoScript}) :
          /\ DOMAIN fixtures = {} /\ DOMAIN projects = {"p1"}
          /\ create_fixture(fx, IoOk(<<FolderA>>))

SpecNames == InitNames /\ [][NextNames]_vars

\* ------------------------------------------------------ claims on SpecNames
\* C13: for every input string, the empty string and the strings made of
\* disallowed characters included, the folder-name normaliser applied to its
\* own result gives that result again, and so does the export-name
\* normaliser: every folder that was scaffolded and every export name that
\* was stored is a fixed point of its normaliser.
C13_NormalisersIdempotent ==
    /\ \A d \in dirs : clean_folder_name(d) = d
    /\ \A f \in DOMAIN fixtures :
          fixtures[f].export_name # NoName
              => _clean_export_name(fixtures[f].export_name) = fixtures[f].export_name


\* ============================================================== SpecIndex
\* Fixtures created and deleted in one project whose folder exists: the
\* index is regenerated after each request, for lists of zero to three
\* fixtures.
NextIndex ==
    \/ \E fx \in FixtureBodies({"p1"}, {<<"a">>, <<"b">>, <<"a", " ", "b">>},
                               {"extend"}, {NoScript}) :
          create_fixture(fx, IoOk(<<FolderA>>))
    \/ \E f \in FixtureIds : delete_fixture(f, IoOk(<<FolderA>>))

SpecIndex == InitFixtureGen /\ [][NextIndex]_vars

\* ------------------------------------------------------ claims on SpecIndex
\* The index file of project p, and the number of tokens of one kind in a
\* rendered text.
IndexFilePath(p) ==
    Path(clean_folder_name(projects[p].name), "fixtures", <<"index.ts">>)

CountTokens(text, kind) == Cardinality({k \in 1..Len(text) : text[k].t = kind})

\* The handlers that regenerate the index.
IndexRegenerators == {"create_fixture", "update_fixture", "delete_fixture"}

\* The index text that the last request generated for project p.
IndexGeneratedFor(p) ==
    /\ resp.op \in IndexRegenerators /\ resp.ok
    /\ \A f \in resp.fx \cap DOMAIN fixtures : fixtures[f].project_id = p
    /\ IndexFilePath(p) \in DOMAIN files

\* C15: index generation renders the placeholder branch when the fixture
\* list is empty, and for a list of N fixtures renders exactly N
\* import/export pairs, one per fixture, with no separator after the last
\* pair.
C15_IndexListsEveryFixtureOnce ==
    \A p \in DOMAIN projects :
        IndexGeneratedFor(p) =>
            IF FixturesOf(p) = {}
            THEN files[IndexFilePath(p)].text = IndexTemplate.else
            ELSE /\ CountTokens(files[IndexFilePath(p)].text, "importName")
                       = Cardinality(FixturesOf(p))
                 /\ CountTokens(files[IndexFilePath(p)].text, "exportName")
                       = Cardinality(FixturesOf(p))
                 /\ \A f \in FixturesOf(p) :
                       \E k \in 1..(Len(files[IndexFilePath(p)].text) - 1) :
                          /\ files[IndexFilePath(p)].text[k]
                                = [t |-> "importName",
                                   v |-> index_export_name(fixtures[f].name)]
                          /\ files[IndexFilePath(p)].text[k + 1]
                                = [t |-> "exportName",
                                   v |-> index_export_name(fixtures[f].name)]
                 /\ CountTokens(files[IndexFilePath(p)].text, "sep")
                       = Cardinality(FixturesOf(p)) - 1
                 /\ files[IndexFilePath(p)].text[Len(files[IndexFilePath(p)].text)].t
                       # "sep"

\* An index was generated for three fixtures, two of them of one name.
C15_IndexOfThreeFixtures ==
    /\ IndexGeneratedFor("p1")
    /\ Cardinality(FixturesOf("p1")) = 3
    /\ \E f, g \in FixturesOf("p1") : f # g /\ fixtures[f].name = fixtures[g].name
    /\ CountTokens(files[IndexFilePath("p1")].text, "sep") = 2

\* =========================================================== SpecScaffold
\* Projects are created, their folders are scaffolded again and again by
\* POST /projects/{id}/playwright-recreate, under every outcome of the
\* scaffolding tool, fixtures put files into the folders, and projects are
\* deleted.
IoScaffold ==
    {IoOk(<<FolderA, FolderB>>),
     [IoOk(<<FolderA, FolderB>>) EXCEPT !.write = FALSE],
     [IoOk(<<FolderA, FolderB>>) EXCEPT !.gen = FALSE]}

InitScaffold ==
    /\ projects = EmptyTable
    /\ dirs = {}
    /\ fixtures = EmptyTable
    /\ test_cases = EmptyTable
    /\ steps = EmptyTable
    /\ test_case_fixtures = {}
    /\ files = EmptyTable
    /\ pages = EmptyTable
    /\ page_locators = EmptyTable
    /\ project_settings = {}
    /\ in_flight = NoRequests
    /\ resp = Response("init", TRUE, IoOk(<<>>))

NextScaffold ==
    \/ \E n \in {<<"a">>, <<"b">>} : create_project([name |-> n], IoOk(<<FolderA, FolderB>>))
    \/ \E p \in DOMAIN projects, tool \in ToolOutcomes, io \in IoScaffold :
          recreate_playwright_project(p, tool, io)
    \/ \E fx \in FixtureBodies(DOMAIN projects, {<<"a">>}, {"extend"}, {NoScript}) :
          DOMAIN fixtures = {} /\ create_fixture(fx, IoOk(<<FolderA, FolderB>>))
    \/ \E p \in DOMAIN projects : delete_project(p, IoOk(<<FolderA, FolderB>>))

SpecScaffold == InitScaffold /\ [][NextScaffold]_vars

\* --------------------------------------------------- claims on SpecScaffold
\* The folder of the project the last request was about, before the request.
ScaffoldedFolders == {clean_folder_name(projects[p].name) : p \in resp'.pr}

\* C17: when the scaffolding tool exits with a non-zero code or cannot be
\* run, the scaffolding answers with an error and the project's folder does
\* not exist afterwards.
C17_FailedScaffoldingLeavesNoFolder ==
    [][(resp'.op = "recreate_playwright_project" /\ resp'.pr # {}
            /\ resp'.tool \in {"exit_nonzero", "not_run"})
          => (~resp'.ok /\ ScaffoldedFolders \cap dirs' = {})]_vars

\* C27: deleting a project never removes a directory that is resolved for
\* another project still present in the database, also when two project
\* names normalise to the same folder name.
C27_DeleteKeepsOtherProjectsFolders ==
    [][resp'.op = "delete_project" =>
          \A q \in DOMAIN projects' :
              get_project_path(dirs, projects'[q].name) # NoDir =>
                  get_project_path(dirs', projects'[q].name)
                      = get_project_path(dirs, projects'[q].name)]_vars

\* ============================================================== SpecPages
\* One project whose folder is scaffolded and whose playwright_project_path
\* a client sets to the folder's name, with up to two pages and two
\* locators created, renamed, changed and deleted.
PageNames == {<<"a">>, <<"B", " ", "b">>}
LocatorValues == {"v1", "v2"}

InitPages ==
    /\ projects = [p \in {"p1"} |-> ProjectRow(<<"a">>)]
    /\ dirs = {}
    /\ fixtures = EmptyTable
    /\ test_cases = EmptyTable
    /\ steps = EmptyTable
    /\ test_case_fixtures = {}
    /\ files = EmptyTable
    /\ pages = EmptyTable
    /\ page_locators = EmptyTable
    /\ project_settings = {}
    /\ in_flight = NoRequests
    /\ resp = Response("init", TRUE, IoOk(<<>>))

\* The pages are made once the folder is there and the column is set.
PagesReady ==
    dirs # {} /\ projects["p1"].playwright_project_path # NoName

NextPages ==
    \/ dirs = {} /\ recreate_playwright_project("p1", "exit_0", IoOk(<<FolderA>>))
    \/ /\ dirs # {} /\ projects["p1"].playwright_project_path = NoName
       /\ update_project("p1", [playwright_project_path |-> FolderA])
    \/ \E n \in PageNames :
          PagesReady /\ create_page([project_id |-> "p1", name |-> n], IoOk(<<FolderA>>))
    \/ \E g \in DOMAIN pages, n \in PageNames :
          update_page(g, [name |-> n], IoOk(<<FolderA>>))
    \/ \E g \in DOMAIN pages : delete_page(g, IoOk(<<FolderA>>))
    \/ \E g \in DOMAIN pages, v \in LocatorValues :
          create_page_locator(g, [locator_key |-> <<"k">>, locator_value |-> v],
                              IoOk(<<FolderA>>))
    \/ \E g \in DOMAIN pages, l \in DOMAIN page_locators, v \in LocatorValues :
          update_page_locator(g, l, [locator_value |-> v], IoOk(<<FolderA>>))
    \/ \E g \in DOMAIN pages, l \in DOMAIN page_locators :
          delete_page_locator(g, l, IoOk(<<FolderA>>))

SpecPages == InitPages /\ [][NextPages]_vars

\* ------------------------------------------------------ claims on SpecPages
PageOps ==
    {"create_page", "update_page", "delete_page",
     "create_page_locator", "update_page_locator", "delete_page_locator"}

\* The project has a folder and its playwright_project_path names it.
HasPageFolder(p) ==
    /\ projects[p].playwright_project_path # NoName
    /\ get_project_path(dirs, projects[p].playwright_project_path) \in dirs

\* The locators stored for the pages of project p.
LocatorsOfProject(p) ==
    {l \in DOMAIN page_locators : pages[page_locators[l].page_id].project_id = p}

\* The properties of a page-object file.
PropertiesOf(content) == {k \in 1..Len(content.text) : content.text[k].t = "readonly"}

\* C16: after every page or locator create, update or delete, the aggregate
\* page-object file of the project exists and holds exactly one property
\* for each locator stored for the project's pages: the block generated
\* from the tables as they are now, nothing else.
C16_PageObjectFollowsTheLocators ==
    (resp.op \in PageOps /\ resp.ok) =>
        \A p \in resp.pr :
            HasPageFolder(p) =>
                /\ AllPagePath(get_project_path(dirs, projects[p].playwright_project_path))
                       \in DOMAIN files
                /\ files[AllPagePath(get_project_path(dirs,
                                         projects[p].playwright_project_path))].text
                       = content_block(pages, page_locators, p)
                /\ Cardinality(PropertiesOf(
                       files[AllPagePath(get_project_path(dirs,
                                 projects[p].playwright_project_path))]))
                       = Cardinality(LocatorsOfProject(p))

\* ============================================================= SpecConfig
\* One project whose settings are set, changed and deleted and whose config
\* is regenerated, in environments where the template is missing or the
\* write fails, and whose folder is scaffolded again.
SettingKeys == {"TIMEOUT", "NOTE"}
SettingValues == {1, 2}

IoConfig ==
    {IoOk(<<FolderA>>),
     [IoOk(<<FolderA>>) EXCEPT !.write = FALSE],
     [IoOk(<<FolderA>>) EXCEPT !.gen = FALSE]}

InitConfig ==
    /\ projects = [p \in {"p1"} |-> ProjectRow(<<"a">>)]
    /\ dirs = {}
    /\ fixtures = EmptyTable
    /\ test_cases = EmptyTable
    /\ steps = EmptyTable
    /\ test_case_fixtures = {}
    /\ files = EmptyTable
    /\ pages = EmptyTable
    /\ page_locators = EmptyTable
    /\ project_settings = {}
    /\ in_flight = NoRequests
    /\ resp = Response("init", TRUE, IoOk(<<>>))

NextConfig ==
    \/ \E k \in SettingKeys, v \in SettingValues, io \in IoConfig :
          upsert_project_setting("p1", k, v, io)
    \/ \E k \in SettingKeys : delete_project_setting_by_key("p1", k, IoOk(<<FolderA>>))
    \/ \E io \in IoConfig : regenerate_config("p1", io)
    \/ recreate_playwright_project("p1", "exit_0", IoOk(<<FolderA>>))

SpecConfig == InitConfig /\ [][NextConfig]_vars

\* ----------------------------------------------------- claims on SpecConfig
\* The folder of the project the last request was about.
ConfigFolders == {clean_folder_name(projects[p].name) : p \in resp'.pr}

\* C18: whenever the config is regenerated while a config file exists at the
\* destination, the backup file afterwards holds exactly the content the
\* config file had immediately before the regeneration.
C18_BackupHoldsThePreviousConfig ==
    [][resp'.regen_config =>
          \A folder \in ConfigFolders :
              ConfigPath(folder) \in DOMAIN files =>
                  /\ BackupPath(folder) \in DOMAIN files'
                  /\ files'[BackupPath(folder)] = files[ConfigPath(folder)]]_vars

\* A regeneration replaced a config file, and an older backup with it: the
\* backup now holds a content that differs from the new config.
C18_BackedUpAnOlderConfig ==
    /\ resp.regen_config /\ resp.write
    /\ ConfigPath(FolderA) \in DOMAIN files
    /\ BackupPath(FolderA) \in DOMAIN files
    /\ files[BackupPath(FolderA)] # files[ConfigPath(FolderA)]
    /\ files[ConfigPath(FolderA)] = config_content(project_settings, "p1")

\* ========================================================= SpecConcurrent
\* Two worker threads serve generate-and-save requests for the one test
\* case of a scaffolded project while steps are added to it by POST /steps/
\* requests, which regenerate nothing, served in between.
InitConcurrent ==
    /\ projects = [p \in {"p1"} |-> ProjectRow(<<"a">>)]
    /\ dirs = {FolderA}
    /\ fixtures = EmptyTable
    /\ test_cases = [t \in {"t1"} |-> TestCaseRow("p1", <<"t">>)]
    /\ steps = EmptyTable
    /\ test_case_fixtures = {}
    /\ files = EmptyTable
    /\ pages = EmptyTable
    /\ page_locators = EmptyTable
    /\ project_settings = {}
    /\ in_flight = NoRequests
    /\ resp = Response("init", TRUE, IoOk(<<>>))

NextConcurrent ==
    \/ \E r \in RequestIds :
          begin_generate_and_save(r, "t1", <<"a">>, IoOk(<<FolderA>>))
    \/ \E r \in RequestIds : open_target(r)
    \/ \E r \in RequestIds : write_target(r, IoOk(<<FolderA>>))
    \/ \E b \in StepBodies({"t1"}, {None}) : create_step(b, IoOk(<<FolderA>>))

SpecConcurrent == InitConcurrent /\ [][NextConcurrent]_vars

\* ------------------------------------------------- claims on SpecConcurrent
\* No request is being served by a worker thread.
Quiescent == \A r \in RequestIds : in_flight[r] = Idle

\* C19: when two requests regenerate the same test case concurrently, once
\* both are done the generated file holds the complete content of the
\* request that wrote last, nothing of the other one, and the request was
\* answered with success.
C19_LastWriterWins ==
    (Quiescent /\ resp.op = "generate_and_save_test_case_script") =>
        /\ resp.ok
        /\ \A t \in resp.tc :
              /\ TestFilePath(projects, test_cases, t) \in DOMAIN files
              /\ files[TestFilePath(projects, test_cases, t)] = resp.content

\* ============================================================= SpecOrphans
\* Test cases and fixtures created under the ids of the one project there is
\* and of a project there is not (p2), before and after the one project is
\* deleted.
InitOrphans ==
    /\ projects = [p \in {"p1"} |-> ProjectRow(<<"a">>)]
    /\ dirs = {FolderA}
    /\ fixtures = EmptyTable
    /\ test_cases = EmptyTable
    /\ steps = EmptyTable
    /\ test_case_fixtures = {}
    /\ files = EmptyTable
    /\ pages = EmptyTable
    /\ page_locators = EmptyTable
    /\ project_settings = {}
    /\ in_flight = NoRequests
    /\ resp = Response("init", TRUE, IoOk(<<>>))

NextOrphans ==
    \/ \E tc \in TestCaseBodies(ProjectIds, {<<"t">>, <<"u">>}) :
          create_test_case(tc, IoOk(<<FolderA>>))
    \/ \E fx \in FixtureBodies(ProjectIds, {<<"a">>, <<"b">>}, {"extend"}, {NoScript}) :
          create_fixture(fx, IoOk(<<FolderA>>))
    \/ \E t \in TestCaseIds : delete_test_case(t)
    \/ \E f \in FixtureIds : delete_fixture(f, IoOk(<<FolderA>>))
    \/ \E p \in DOMAIN projects : delete_project(p, IoOk(<<FolderA>>))

SpecOrphans == InitOrphans /\ [][NextOrphans]_vars

\* C21: creating a test case or a fixture whose project id matches no
\* project fails with a not-found error and persists no record.
C21_CreateForMissingProjectIsNotFound ==
    [][(/\ resp'.op \in {"create_test_case", "create_fixture"}
        /\ resp'.pr \cap DOMAIN projects = {})
          => /\ ~resp'.ok
             /\ resp'.error = HTTP_404_NOT_FOUND
             /\ test_cases' = test_cases
             /\ fixtures' = fixtures]_vars
\* C26: within one project, two distinct test cases never have the same
\* generated file path and two distinct fixtures never have the same
\* generated file path: the paths the generators stored on the rows of one
\* project are pairwise different.
C26_GeneratedPathsDistinct ==
    /\ \A t, u \in DOMAIN test_cases :
          (/\ t # u
           /\ test_cases[t].project_id = test_cases[u].project_id
           /\ test_cases[t].test_file_path # NoPath
           /\ test_cases[u].test_file_path # NoPath)
              => test_cases[t].test_file_path # test_cases[u].test_file_path
    /\ \A f, g \in DOMAIN fixtures :
          (/\ f # g
           /\ fixtures[f].project_id = fixtures[g].project_id
           /\ fixtures[f].fixture_file_path # NoPath
           /\ fixtures[g].fixture_file_path # NoPath)
              => fixtures[f].fixture_file_path # fixtures[g].fixture_file_path

\* ============================================================= SpecActions
\* Steps of one test case created and updated with and without an action,
\* bound to no fixture, to the extend fixture f1 ("a") or to the inline
\* fixture f2 ("b").
InitActions ==
    /\ projects = [p \in {"p1"} |-> ProjectRow(<<"a">>)]
    /\ dirs = {}
    /\ fixtures = [f \in {"f1", "f2"} |->
                      IF f = "f1" THEN FixtureRow("p1", <<"a">>, "extend")
                      ELSE FixtureRow("p1", <<"b">>, "inline")]
    /\ test_cases = [t \in {"t1"} |-> TestCaseRow("p1", <<"t">>)]
    /\ steps = EmptyTable
    /\ test_case_fixtures = {}
    /\ files = EmptyTable
    /\ pages = EmptyTable
    /\ page_locators = EmptyTable
    /\ project_settings = {}
    /\ in_flight = NoRequests
    /\ resp = Response("init", TRUE, IoOk(<<>>))

\* The step bodies with an action and with a blank one.
StepBodiesWithAction(test_case_ids, fixture_ids) ==
    [test_case_id : test_case_ids, action : {<<>>, <<"x">>}, expected : {""},
     playwright_script : {""}, order : Orders, disabled : {FALSE},
     referenced_fixture_id : fixture_ids]

\* The step updates that send the fixture, the action, or both.
StepActionUpdates(fixture_ids) ==
    {[set |-> {"referenced_fixture_id"}, order |-> 1,
      referenced_fixture_id |-> f, action |-> <<>>] : f \in fixture_ids}
    \cup {[set |-> {"action"}, order |-> 1,
           referenced_fixture_id |-> None, action |-> a] : a \in {<<>>, <<"x">>}}
    \cup {[set |-> {"referenced_fixture_id", "action"}, order |-> 1,
           referenced_fixture_id |-> f, action |-> a] :
              f \in fixture_ids, a \in {<<>>, <<"x">>}}

NextActions ==
    \/ \E b \in StepBodiesWithAction({None}, {None, "f1", "f2"}) :
          create_test_case_step("t1", b, IoOk(<<>>))
    \/ \E b \in StepBodiesWithAction({None}, {None}), f \in {"f1", "f2"} :
          create_fixture_step(f, b, IoOk(<<>>))
    \/ \E b \in StepBodiesWithAction({"t1"}, {None, "f1", "f2"}) :
          create_step(b, IoOk(<<>>))
    \/ \E i \in StepIds, u \in StepActionUpdates({"f1", "f2"}) :
          update_step(i, u, IoOk(<<>>))
    \/ \E i \in StepIds : delete_step(i, IoOk(<<>>))

SpecActions == InitActions /\ [][NextActions]_vars

\* C22: when a step is created or updated with a referenced fixture and a
\* blank action, and validation succeeds, the step's stored action is the
\* referenced fixture's name.
C22_BlankActionBecomesFixtureName ==
    [][(/\ resp'.op \in CreateOps \cup {"update_step"}
        /\ resp'.ok
        /\ resp'.ref # None
        /\ resp'.blank_action)
          => \A i \in resp'.st :
                 steps'[i].action = fixtures[resp'.ref].name]_vars
\* ============================================================= SpecReorder
\* The two reorder handlers on four steps, all of the test case t1 or all
\* of the fixture f1, whatever orders earlier creates and updates left them
\* with; steps are deleted and moved to other orders in between.
ReorderStepIds == {"s1", "s2", "s3", "s4"}
ReorderOrders == 0..(Cardinality(ReorderStepIds) + 1)

InitReorder ==
    /\ projects = [p \in {"p1"} |-> ProjectRow(<<"a">>)]
    /\ dirs = {}
    /\ fixtures = [f \in {"f1"} |-> FixtureRow("p1", <<"a">>, "extend")]
    /\ test_cases = [t \in {"t1"} |-> TestCaseRow("p1", <<"t">>)]
    /\ \E order \in [ReorderStepIds -> 1..Cardinality(ReorderStepIds)],
          owner \in {[test_case_id |-> "t1", referenced_fixture_id |-> None,
                       referenced_fixture_type |-> None],
                     [test_case_id |-> None, referenced_fixture_id |-> "f1",
                       referenced_fixture_type |-> "extend"]} :
          steps = [i \in ReorderStepIds |->
                      [test_case_id |-> owner.test_case_id,
                       action |-> <<"x">>, expected |-> "", playwright_script |-> "",
                       order |-> order[i], disabled |-> FALSE,
                       referenced_fixture_id |-> owner.referenced_fixture_id,
                       referenced_fixture_type |-> owner.referenced_fixture_type]]
    /\ test_case_fixtures = {}
    /\ files = EmptyTable
    /\ pages = EmptyTable
    /\ page_locators = EmptyTable
    /\ project_settings = {}
    /\ in_flight = NoRequests
    /\ resp = Response("init", TRUE, IoOk(<<>>))

NextReorder ==
    \/ \E i \in ReorderStepIds, o \in ReorderOrders : reorder_test_case_steps("t1", i, o)
    \/ \E i \in ReorderStepIds, o \in ReorderOrders : reorder_fixture_steps("f1", i, o)
    \/ \E i \in ReorderStepIds : delete_step(i, IoOk(<<>>))

SpecReorder == InitReorder /\ [][NextReorder]_vars

ReorderOps == {"reorder_test_case_steps", "reorder_fixture_steps"}

\* The steps of the scope a reorder request named: a test case's steps, or
\* the steps that reference a fixture.
ReorderScope(r) ==
    IF r.op = "reorder_test_case_steps"
    THEN {i \in DOMAIN steps : steps[i].test_case_id \in r.tc}
    ELSE {i \in DOMAIN steps : steps[i].referenced_fixture_id \in r.fx}

\* The orders of the steps `ids` of the table S are exactly 1..N.
DenseOrders(S, ids) == {S[i].order : i \in ids} = 1..Cardinality(ids)

\* C23: if the steps of a test case (or of a fixture) have the orders
\* exactly 1..N, moving one step to a position p with 1 <= p <= N through
\* the reorder operation leaves the orders exactly 1..N, with the moved step
\* at p and all other steps in their previous relative order.
C23_ReorderKeepsDenseOrders ==
    [][(/\ resp'.op \in ReorderOps
        /\ resp'.st # {} /\ resp'.st \subseteq ReorderScope(resp')
        /\ DenseOrders(steps, ReorderScope(resp'))
        /\ resp'.order[1] \in 1..Cardinality(ReorderScope(resp')))
          => /\ resp'.ok
             /\ DOMAIN steps' = DOMAIN steps
             /\ DenseOrders(steps', ReorderScope(resp'))
             /\ \A m \in resp'.st : steps'[m].order = resp'.order[1]
             /\ \A i, j \in ReorderScope(resp') \ resp'.st :
                    steps[i].order < steps[j].order
                        => steps'[i].order < steps'[j].order]_vars

\* A step of four was moved from another position to the first one.
C23_MovedToTheFront ==
    /\ resp.op = "reorder_test_case_steps" /\ resp.ok
    /\ resp.message = "Step reordered successfully"
    /\ resp.st = {"s3"} /\ resp.order = <<1>>
    /\ DOMAIN steps = ReorderStepIds
    /\ DenseOrders(steps, ReorderStepIds)
    /\ steps["s3"].order = 1
\* ================================================================ SpecRace
\* generate-and-save requests for the test case t1 in worker threads, side
\* by side with the step creation of the event loop, which adds a step to
\* t1, regenerates its file and stores what it reads back.
InitRace ==
    /\ projects = [p \in {"p1"} |-> ProjectRow(<<"a">>)]
    /\ dirs = {FolderA}
    /\ fixtures = EmptyTable
    /\ test_cases = [t \in {"t1"} |-> TestCaseRow("p1", <<"t">>)]
    /\ steps = EmptyTable
    /\ test_case_fixtures = {}
    /\ files = EmptyTable
    /\ pages = EmptyTable
    /\ page_locators = EmptyTable
    /\ project_settings = {}
    /\ in_flight = NoRequests
    /\ resp = Response("init", TRUE, IoOk(<<>>))

NextRace ==
    \/ \E r \in RequestIds :
          begin_generate_and_save(r, "t1", <<"a">>, IoOk(<<FolderA>>))
    \/ \E r \in RequestIds : open_target(r)
    \/ \E r \in RequestIds : write_target(r, IoOk(<<FolderA>>))
    \/ \E b \in StepBodies({None}, {None}) :
          create_test_case_step("t1", b, IoOk(<<FolderA>>))
    \/ \E i \in StepIds : delete_step(i, IoOk(<<FolderA>>))

SpecRace == InitRace /\ [][NextRace]_vars

\* The script that a generation from the tables as they are now gives.
ScriptNow(t) ==
    generate_test_case(steps, fixtures, test_cases, test_case_fixtures, t,
                       IoOk(<<FolderA>>)).content

\* C24: after any interleaving of two concurrent regenerations of the same
\* test case has run to completion, the record's stored script equals the
\* content of its generated file.  The request that finishes here wrote a
\* script that is not the one the tables give any more: a step handler
\* changed and regenerated the test case while the request was in flight.
C24_ScriptIsTheFileAfterARace ==
    [][(/\ resp'.op = "generate_and_save_test_case_script" /\ resp'.ok
        /\ Quiescent'
        /\ \E t \in resp'.tc : resp'.content # ScriptNow(t))
          => \A t \in resp'.tc :
                 /\ TestFilePath(projects, test_cases, t) \in DOMAIN files'
                 /\ test_cases'[t].playwright_script =
                        files'[TestFilePath(projects, test_cases, t)]]_vars
\* ============================================================== SpecRename
\* One project at a time: its folder is scaffolded through the recreate
\* endpoint, the project is renamed, test cases are created and renamed
\* under it, and it is deleted.
InitRename ==
    /\ projects = [p \in {"p1"} |-> ProjectRow(<<"a">>)]
    /\ dirs = {}
    /\ fixtures = EmptyTable
    /\ test_cases = EmptyTable
    /\ steps = EmptyTable
    /\ test_case_fixtures = {}
    /\ files = EmptyTable
    /\ pages = EmptyTable
    /\ page_locators = EmptyTable
    /\ project_settings = {}
    /\ in_flight = NoRequests
    /\ resp = Response("init", TRUE, IoOk(<<>>))

NextRename ==
    \/ \E n \in {<<"a">>, <<"b">>} :
          DOMAIN projects = {} /\ create_project([name |-> n], IoOk(<<FolderA, FolderB>>))
    \/ \E p \in DOMAIN projects :
          recreate_playwright_project(p, "exit_0", IoOk(<<FolderA, FolderB>>))
    \/ \E p \in DOMAIN projects, n \in {<<"a">>, <<"b">>} :
          update_project(p, [name |-> n])
    \/ \E tc \in TestCaseBodies(DOMAIN projects, {<<"t">>}) :
          DOMAIN test_cases = {} /\ create_test_case(tc, IoOk(<<FolderA, FolderB>>))
    \/ \E t \in DOMAIN test_cases, u \in TestCaseRenames({<<"t">>, <<"u">>}) :
          update_test_case(t, u, IoOk(<<FolderA, FolderB>>))
    \/ \E p \in DOMAIN projects : delete_project(p, IoOk(<<FolderA, FolderB>>))

SpecRename == InitRename /\ [][NextRename]_vars

\* C28: for every project whose directory was scaffolded, the generators
\* and the project delete keep resolving that same directory in every later
\* state until the project is deleted, also after a project update changed
\* the project's name: no step changes the directory that get_project_path
\* gives for a project that stays.
C28_ProjectKeepsItsDirectory ==
    [][\A q \in DOMAIN projects \cap DOMAIN projects' :
          get_project_path(dirs, projects[q].name) # NoDir =>
              get_project_path(dirs', projects'[q].name)
                  = get_project_path(dirs, projects[q].name)]_vars
\* ========================================================= SpecIndexFiles
\* Fixtures of one project whose folder exists, created under names with
\* and without an underscore, renamed, given a new script, and deleted.
IndexedNames == {<<"a">>, <<"a", "_", "b">>}

NextIndexFiles ==
    \/ \E fx \in FixtureBodies({"p1"}, IndexedNames, {"extend"}, {NoScript}) :
          Cardinality(DOMAIN fixtures) < 2 /\ create_fixture(fx, IoOk(<<FolderA>>))
    \/ \E f \in FixtureIds,
          u \in FixtureRenames(IndexedNames) \cup FixtureScriptUpdates({RawScript("y")}) :
          update_fixture(f, u, IoOk(<<FolderA>>))
    \/ \E f \in FixtureIds : delete_fixture(f, IoOk(<<FolderA>>))

SpecIndexFiles == InitFixtureGen /\ [][NextIndexFiles]_vars

\* The file an index entry imports: its fileName with the extension .ts,
\* in the fixtures folder of the project.
IndexedFilePath(p, fileName) ==
    Path(clean_folder_name(projects[p].name), "fixtures",
         FixtureFileName(SubSeq(fileName, 1, Len(fileName) - 1)))

\* C29: after any successful fixture create, update or delete, every entry
\* of the project's fixtures index names a fixture file that exists on
\* disk, and every fixture the generator produced a file for is listed
\* under the export name and the file name the generator produced.
C29_IndexEntriesNameGeneratedFiles ==
    \A p \in DOMAIN projects :
        IndexGeneratedFor(p) =>
            /\ \A k \in 1..Len(files[IndexFilePath(p)].text) :
                  files[IndexFilePath(p)].text[k].t = "fileName" =>
                      IndexedFilePath(p, files[IndexFilePath(p)].text[k].v)
                          \in DOMAIN files
            /\ \A f \in FixturesOf(p) :
                  fixtures[f].export_name # NoName =>
                      \E k \in 1..(Len(files[IndexFilePath(p)].text) - 1) :
                         /\ files[IndexFilePath(p)].text[k]
                               = [t |-> "exportName", v |-> fixtures[f].export_name]
                         /\ files[IndexFilePath(p)].text[k + 1]
                               = [t |-> "fileName",
                                  v |-> Append(fixtures[f].export_name, ".fixture")]
\* =============================================================== SpecRegen
\* One fixture of the project of InitFixtureGen, with steps created,
\* updated and deleted under it, its script updated, and its file
\* regenerated on request.
NextRegen ==
    \/ \E fx \in FixtureBodies({"p1"}, {<<"a">>}, {"extend"}, {NoScript, RawScript("x")}) :
          DOMAIN fixtures = {} /\ create_fixture(fx, IoOk(<<FolderA>>))
    \/ \E f \in FixtureIds, b \in StepBodies({None}, {None}) :
          create_fixture_step(f, b, IoOk(<<FolderA>>))
    \/ \E f \in FixtureIds, u \in FixtureScriptUpdates({RawScript("y")}) :
          update_fixture(f, u, IoOk(<<FolderA>>))
    \/ \E i \in StepIds, u \in StepUpdates({None}) : update_step(i, u, IoOk(<<FolderA>>))
    \/ \E i \in StepIds : delete_step(i, IoOk(<<FolderA>>))
    \/ \E f \in FixtureIds : regenerate_fixture_file(f, IoOk(<<FolderA>>))

SpecRegen == InitFixtureGen /\ [][NextRegen]_vars

\* The handlers that regenerate the file of a fixture.
FixtureFileRegenerators == FixtureRegenerators \cup {"regenerate_fixture_file"}

\* The last request regenerated the file of fixture f, and so does this
\* step, which changes neither the steps nor the name and type of f.
RegeneratedTwice(f) ==
    /\ resp.op \in FixtureFileRegenerators /\ resp.regen_fx /\ f \in resp.fx
    /\ resp'.op \in FixtureFileRegenerators /\ resp'.regen_fx /\ f \in resp'.fx
    /\ f \in DOMAIN fixtures /\ f \in DOMAIN fixtures'
    /\ steps' = steps
    /\ fixtures'[f].name = fixtures[f].name /\ fixtures'[f].type = fixtures[f].type

\* C30: regenerating a fixture's file twice in a row, with no change to the
\* fixture or its steps in between, leaves the file content and the
\* fixture's stored script as they were after the first regeneration.
C30_RegeneratingTwiceChangesNothing ==
    [][\A f \in FixtureIds :
          RegeneratedTwice(f) =>
              /\ FixtureFilePath(projects, fixtures', f) \in DOMAIN files'
              /\ files'[FixtureFilePath(projects, fixtures', f)]
                     = files[FixtureFilePath(projects, fixtures, f)]
              /\ fixtures'[f].playwright_script = fixtures[f].playwright_script]_vars
====
